---- MODULE Spec2Model ----
(***************************************************************************)
(* Board state machine and legality engine of the chs chess rules engine.  *)
(* The board (src/game/board/mod.rs) is a record; make_turn and undo_turn  *)
(* (board/turns.rs) and the move generator (board/moves.rs) are operators  *)
(* on it, translated statement by statement.  The generator threads the    *)
(* board through every probe it makes, because is_move_legal mutates the   *)
(* board and rolls it back.  A Rust panic (expect, unwrap, assert!,        *)
(* panic!) aborts the process: it is the board's panic flag, after which   *)
(* no operation does anything.  half_move_clock holds 8-bit signed         *)
(* integers: what an addition out of their range does depends on the build *)
(* (overflow_checks: it panics, as in a debug build; otherwise it wraps).  *)
(***************************************************************************)
EXTENDS Integers, Sequences, FiniteSets, TLC

VARIABLES board, generated, op, before, returned, line, overflow_checks,
          input, output

vars == <<board, generated, op, before, returned, line, overflow_checks,
          input, output>>

----------------------------------------------------------------------------
(* Option::None of a Position, and the absent values of the other options. *)
None == 0 - 1

NoKind == "None"

Abs(x) == IF x < 0 THEN 0 - x ELSE x

Last(s) == s[Len(s)]

Front(s) == SubSeq(s, 1, Len(s) - 1)

(* The element of a one-element set.  { e(x) : x \in {v} } is how a value  *)
(* computed once is given a name: a LET name is computed at every use.     *)
Only(S) == CHOOSE x \in S : TRUE

(* i8 arithmetic: the range, and an out-of-range result wrapped into it. *)
I8Min == 0 - 128

I8Max == 127

InI8(x) == I8Min <= x /\ x <= I8Max

WrapI8(x) == ((x - I8Min) % 256) + I8Min

----------------------------------------------------------------------------
(* Color *)
Not(color) == IF color = "White" THEN "Black" ELSE "White"

get_home(color) == IF color = "White" THEN 0 ELSE 7

get_direction(color) == IF color = "White" THEN 1 ELSE 0 - 1

----------------------------------------------------------------------------
(* Position *)
Row(p) == p \div 8

Col(p) == p % 8

PositionNew(row, col) == row * 8 + col

(* Position::new with its two assertions: ret is the position, panic tells *)
(* that an assertion failed.                                               *)
PositionNewChecked(row, col) ==
    IF row \in 0..7 /\ col \in 0..7
    THEN [panic |-> FALSE, ret |-> PositionNew(row, col)]
    ELSE [panic |-> TRUE, ret |-> None]

(* Position::color: the parity of the square index.  The third arm of the  *)
(* match is unreachable for indices 0..63.                                 *)
PositionColor(p) == IF p % 2 = 0 THEN "Black" ELSE "White"

(* Variant of offset that adds the offset to the square index and checks   *)
(* the index only.                                                         *)
OffsetByIndex(p, row, col) ==
    LET i == p + 8 * row + col
    IN  IF i < 0 \/ i > 63 THEN None ELSE i

Offset(p, row, col) ==
    LET y == Row(p) + row
        x == Col(p) + col
    IN  IF x < 0 \/ x > 7 \/ y < 0 \/ y > 7 THEN None ELSE PositionNew(y, x)

----------------------------------------------------------------------------
(* Piece and Turn *)
NoPiece == [kind |-> NoKind, color |-> NoKind, move_count |-> 0]

PieceNew(kind, color) == [kind |-> kind, color |-> color, move_count |-> 0]

PROMOTABLE_TYPES == <<"Queen", "Rook", "Bishop", "Knight">>

KNIGHT_MOVES ==
    << <<1, 0>>, <<0, 1>>, <<0 - 1, 0>>, <<0, 0 - 1>>,
       <<1, 0>>, <<0, 1>>, <<0 - 1, 0>>, <<0, 0 - 1>> >>

NoTurn ==
    [kind |-> NoKind, from |-> None, to |-> None, capture |-> None,
     additional_move |-> <<>>, promote_to |-> NoKind, promote_from |-> NoKind]

new_basic(kind, from, to) ==
    [kind |-> kind, from |-> from, to |-> to, capture |-> None,
     additional_move |-> <<>>, promote_to |-> NoKind, promote_from |-> NoKind]

new_capture(kind, from, to) ==
    [kind |-> kind, from |-> from, to |-> to, capture |-> to,
     additional_move |-> <<>>, promote_to |-> NoKind, promote_from |-> NoKind]

new_additional(kind, main, other) ==
    [kind |-> kind, from |-> main[1], to |-> main[2], capture |-> None,
     additional_move |-> other, promote_to |-> NoKind, promote_from |-> NoKind]

new_capture_complex(kind, from, to, capture) ==
    [kind |-> kind, from |-> from, to |-> to, capture |-> capture,
     additional_move |-> <<>>, promote_to |-> NoKind, promote_from |-> NoKind]

new_promotion(kind, from, to, promote_to, capture) ==
    [kind |-> kind, from |-> from, to |-> to,
     capture |-> IF capture THEN to ELSE None,
     additional_move |-> <<>>, promote_to |-> promote_to, promote_from |-> kind]

----------------------------------------------------------------------------
(* Board construction *)
piece_order ==
    <<"Rook", "Knight", "Bishop", "Queen", "King", "Bishop", "Knight", "Rook">>

BoardDefault ==
    [captures |-> <<>>,
     squares |-> [i \in 0..63 |-> NoPiece],
     whose_turn |-> "White",
     moves |-> <<>>,
     half_move_clock |-> <<0>>,
     en_passant_target |-> None,
     num_moves |-> 1,
     panic |-> FALSE]

from_start ==
    [BoardDefault EXCEPT !.squares =
        [i \in 0..63 |->
            IF i < 8 THEN PieceNew(piece_order[i + 1], "White")
            ELSE IF i >= 56 THEN PieceNew(piece_order[i - 55], "Black")
            ELSE IF i < 16 THEN PieceNew("Pawn", "White")
            ELSE IF i >= 48 THEN PieceNew("Pawn", "Black")
            ELSE NoPiece]]

at_position(b, position) == b.squares[position]

get_prev_turn(b) == IF b.moves = <<>> THEN NoTurn ELSE b.moves[Len(b.moves)]

Panicked(b) == [b EXCEPT !.panic = TRUE]

----------------------------------------------------------------------------
(* from_fen.  The input is the FEN text already split at whitespace into   *)
(* its six sections; a section is a sequence of one-character strings, and *)
(* a numeric section is <<TRUE, n>> for the decimal text of n and          *)
(* <<FALSE, 0>> for text that is no number.  The result is                 *)
(* [err |-> <<"Ok">>, b |-> board] or [err |-> the FenError, b |-> (none)]. *)
Digits == <<"0", "1", "2", "3", "4", "5", "6", "7", "8", "9">>

IsDigit(c) == \E i \in 1..Len(Digits) : Digits[i] = c

DigitValue(c) == (CHOOSE i \in 1..Len(Digits) : Digits[i] = c) - 1

UpperLetters == <<"K", "Q", "B", "N", "R", "P", "A", "C", "D", "E", "F", "G", "H">>

LowerLetters == <<"k", "q", "b", "n", "r", "p", "a", "c", "d", "e", "f", "g", "h">>

IsUpper(c) == \E i \in 1..Len(UpperLetters) : UpperLetters[i] = c

ToLower(c) ==
    IF IsUpper(c)
    THEN LowerLetters[CHOOSE i \in 1..Len(UpperLetters) : UpperLetters[i] = c]
    ELSE c

FenKind(c) ==
    CASE c = "k" -> "King"
      [] c = "q" -> "Queen"
      [] c = "b" -> "Bishop"
      [] c = "n" -> "Knight"
      [] c = "r" -> "Rook"
      [] OTHER -> NoKind

FenErr(err) == [err |-> err, b |-> BoardDefault]

(* The loop over the characters of the piece placement, from character i   *)
(* with the cursor at (row, col).                                          *)
RECURSIVE FenPlace(_, _, _, _, _)
FenPlace(chars, i, row, col, squares) ==
    IF i > Len(chars) THEN [err |-> <<"Ok">>, squares |-> squares, row |-> row]
    ELSE
    LET c == chars[i]
    IN  IF IsDigit(c)
        THEN IF col + DigitValue(c) > 8
             THEN [err |-> <<"IncorrectCols", row, col + DigitValue(c)>>,
                   squares |-> squares, row |-> row]
             ELSE FenPlace(chars, i + 1, row, col + DigitValue(c), squares)
        ELSE IF c = "/"
        THEN IF col # 8
             THEN [err |-> <<"IncorrectCols", row, col>>,
                   squares |-> squares, row |-> row]
             ELSE IF row + 1 = 8
             THEN [err |-> <<"IncorrectRows", row + 1>>,
                   squares |-> squares, row |-> row + 1]
             ELSE FenPlace(chars, i + 1, row + 1, 0, squares)
        ELSE IF col >= 8
        THEN [err |-> <<"IncorrectCols", row, col>>, squares |-> squares, row |-> row]
        ELSE IF FenKind(ToLower(c)) = NoKind
        THEN [err |-> <<"InvalidPiece", c>>, squares |-> squares, row |-> row]
        ELSE FenPlace(chars, i + 1, row, col,
                      [squares EXCEPT ![PositionNew(row, col)] =
                          PieceNew(FenKind(ToLower(c)),
                                   IF IsUpper(c) THEN "White" ELSE "Black")])

CastlingCorners ==
    << <<PositionNew(0, 0), "White">>, <<PositionNew(0, 7), "White">>,
       <<PositionNew(7, 0), "Black">>, <<PositionNew(7, 7), "Black">> >>

CastlingCorner(c) ==
    CASE c = "Q" -> CastlingCorners[1]
      [] c = "K" -> CastlingCorners[2]
      [] c = "q" -> CastlingCorners[3]
      [] c = "k" -> CastlingCorners[4]
      [] OTHER -> <<>>

IsRookOf(squares, corner) ==
    squares[corner[1]].kind = "Rook" /\ squares[corner[1]].color = corner[2]

(* "Disable castling by default": every corner rook gets move_count 1. *)
FenDisableCastling(squares) ==
    [p \in 0..63 |->
        IF \E k \in 1..4 : CastlingCorners[k][1] = p /\ IsRookOf(squares, CastlingCorners[k])
        THEN [squares[p] EXCEPT !.move_count = 1]
        ELSE squares[p]]

(* The loop over the characters of the castling section. *)
RECURSIVE FenCastling(_, _, _)
FenCastling(chars, i, squares) ==
    IF i > Len(chars) THEN [err |-> <<"Ok">>, squares |-> squares]
    ELSE IF CastlingCorner(chars[i]) = <<>>
    THEN [err |-> <<"IllegalCastling">>, squares |-> squares]
    ELSE FenCastling(chars, i + 1,
            IF IsRookOf(squares, CastlingCorner(chars[i]))
            THEN [squares EXCEPT ![CastlingCorner(chars[i])[1]].move_count = 0]
            ELSE squares)

ColorFromFen(text) ==
    IF text = <<"w">> THEN "White"
    ELSE IF text = <<"b">> THEN "Black"
    ELSE NoKind

FenFiles == <<"a", "b", "c", "d", "e", "f", "g", "h">>

(* Position::from_fen: [err, ret] with ret = None for "-". *)
PositionFromFen(text) ==
    IF text = <<"-">> THEN [err |-> <<"Ok">>, ret |-> None]
    ELSE IF Len(text) # 2 THEN [err |-> <<"InvalidPosition">>, ret |-> None]
    ELSE IF \/ ~\E k \in 1..8 : FenFiles[k] = ToLower(text[1])
            \/ ~(IsDigit(text[2]) /\ DigitValue(text[2]) \in 1..8)
    THEN [err |-> <<"InvalidPosition">>, ret |-> None]
    ELSE [err |-> <<"Ok">>,
          ret |-> PositionNew(DigitValue(text[2]) - 1,
                              (CHOOSE k \in 1..8 : FenFiles[k] = ToLower(text[1])) - 1)]

I32Max == 2147483647

from_fen(fen) ==
    IF ~fen.half_move_clock[1] \/ ~InI8(fen.half_move_clock[2])
    THEN FenErr(<<"InvalidNumber">>)
    ELSE IF ~fen.num_moves[1] \/ fen.num_moves[2] > I32Max
            \/ fen.num_moves[2] < 0 - I32Max - 1
    THEN FenErr(<<"InvalidNumber">>)
    ELSE
    LET placed == FenPlace(fen.positions, 1, 7, 0, BoardDefault.squares)
    IN  IF placed.err # <<"Ok">> THEN FenErr(placed.err)
        ELSE IF placed.row # 7 THEN FenErr(<<"IncorrectRows", placed.row>>)
        ELSE
        LET rights == IF fen.castling = <<"-">>
                      THEN [err |-> <<"Ok">>, squares |-> FenDisableCastling(placed.squares)]
                      ELSE FenCastling(fen.castling, 1, FenDisableCastling(placed.squares))
            color == ColorFromFen(fen.to_move)
            target == PositionFromFen(fen.en_passant_target)
        IN  IF rights.err # <<"Ok">> THEN FenErr(rights.err)
            ELSE IF color = NoKind THEN FenErr(<<"InvalidColor">>)
            ELSE IF target.err # <<"Ok">> THEN FenErr(target.err)
            ELSE [err |-> <<"Ok">>,
                  b |-> [BoardDefault EXCEPT
                            !.half_move_clock = <<fen.half_move_clock[2]>>,
                            !.num_moves = fen.num_moves[2],
                            !.squares = rights.squares,
                            !.whose_turn = color,
                            !.en_passant_target = target.ret]]

----------------------------------------------------------------------------
(* make_turn and undo_turn *)
(* Variant of make_turn without the assertion that the destination square *)
(* is empty when the main piece is placed.                                 *)
MakeTurnOverwrite(b, turn) ==
    IF b.panic THEN b
    ELSE
    LET hasCap == turn.capture # None
        sq1 == IF hasCap THEN [b.squares EXCEPT ![turn.capture] = NoPiece]
               ELSE b.squares
        caps1 == IF hasCap THEN Append(b.captures, b.squares[turn.capture])
                 ELSE b.captures
        clk1 == IF hasCap THEN Append(b.half_move_clock, 0 - 1)
                ELSE b.half_move_clock
        pawnPush == turn.kind = "Pawn" /\ ~hasCap
        ep == IF pawnPush /\ Abs(Row(turn.to) - Row(turn.from)) = 2
              THEN PositionNew((Row(turn.to) + Row(turn.from)) \div 2, Col(turn.from))
              ELSE None
        clk2 == IF pawnPush THEN Append(clk1, 0 - 1) ELSE clk1
        piece0 == sq1[turn.from]
        sq2 == [sq1 EXCEPT ![turn.from] = NoPiece]
        hasAdd == turn.additional_move # <<>>
        afrom == turn.additional_move[1]
        ato == turn.additional_move[2]
        sq3 == IF hasAdd
               THEN [sq2 EXCEPT ![afrom] = NoPiece, ![ato] = sq2[afrom]]
               ELSE sq2
        piece1 == [kind |-> IF turn.promote_to # NoKind THEN turn.promote_to
                            ELSE piece0.kind,
                   color |-> piece0.color,
                   move_count |-> piece0.move_count + 1]
        clk3 == [clk2 EXCEPT ![Len(clk2)] = WrapI8(@ + 1)]
        turn1 == Not(b.whose_turn)
        fail == \/ hasCap /\ b.squares[turn.capture] = NoPiece
                \/ piece0 = NoPiece
                \/ hasAdd /\ (sq2[afrom] = NoPiece
                             \/ [sq2 EXCEPT ![afrom] = NoPiece][ato] # NoPiece)
                \/ clk2 = <<>>
                \/ overflow_checks /\ ~InI8(Last(clk2) + 1)
    IN  IF fail THEN Panicked(b)
        ELSE [captures |-> caps1,
              squares |-> [sq3 EXCEPT ![turn.to] = piece1],
              whose_turn |-> turn1,
              moves |-> Append(b.moves, turn),
              half_move_clock |-> clk3,
              en_passant_target |-> ep,
              num_moves |-> IF turn1 = "White" THEN b.num_moves + 1 ELSE b.num_moves,
              panic |-> FALSE]

MakeTurn(b, turn) ==
    IF b.panic THEN b
    ELSE
    LET hasCap == turn.capture # None
        sq1 == IF hasCap THEN [b.squares EXCEPT ![turn.capture] = NoPiece]
               ELSE b.squares
        caps1 == IF hasCap THEN Append(b.captures, b.squares[turn.capture])
                 ELSE b.captures
        clk1 == IF hasCap THEN Append(b.half_move_clock, 0 - 1)
                ELSE b.half_move_clock
        pawnPush == turn.kind = "Pawn" /\ ~hasCap
        ep == IF pawnPush /\ Abs(Row(turn.to) - Row(turn.from)) = 2
              THEN PositionNew((Row(turn.to) + Row(turn.from)) \div 2, Col(turn.from))
              ELSE None
        clk2 == IF pawnPush THEN Append(clk1, 0 - 1) ELSE clk1
        piece0 == sq1[turn.from]
        sq2 == [sq1 EXCEPT ![turn.from] = NoPiece]
        hasAdd == turn.additional_move # <<>>
        afrom == turn.additional_move[1]
        ato == turn.additional_move[2]
        sq3 == IF hasAdd
               THEN [sq2 EXCEPT ![afrom] = NoPiece, ![ato] = sq2[afrom]]
               ELSE sq2
        piece1 == [kind |-> IF turn.promote_to # NoKind THEN turn.promote_to
                            ELSE piece0.kind,
                   color |-> piece0.color,
                   move_count |-> piece0.move_count + 1]
        clk3 == [clk2 EXCEPT ![Len(clk2)] = WrapI8(@ + 1)]
        turn1 == Not(b.whose_turn)
        fail == \/ hasCap /\ b.squares[turn.capture] = NoPiece
                \/ piece0 = NoPiece
                \/ hasAdd /\ (sq2[afrom] = NoPiece
                             \/ [sq2 EXCEPT ![afrom] = NoPiece][ato] # NoPiece)
                \/ sq3[turn.to] # NoPiece
                \/ clk2 = <<>>
                \/ overflow_checks /\ ~InI8(Last(clk2) + 1)
    IN  IF fail THEN Panicked(b)
        ELSE [captures |-> caps1,
              squares |-> [sq3 EXCEPT ![turn.to] = piece1],
              whose_turn |-> turn1,
              moves |-> Append(b.moves, turn),
              half_move_clock |-> clk3,
              en_passant_target |-> ep,
              num_moves |-> IF turn1 = "White" THEN b.num_moves + 1 ELSE b.num_moves,
              panic |-> FALSE]

(* undo_turn once moves.pop() has given Some(turn). *)
UndoPopped(b) ==
    LET turn == Last(b.moves)
        moves1 == Front(b.moves)
        piece0 == b.squares[turn.to]
        sq1 == [b.squares EXCEPT ![turn.to] = NoPiece]
        hasAdd == turn.additional_move # <<>>
        afrom == turn.additional_move[1]
        ato == turn.additional_move[2]
        sq2 == IF hasAdd
               THEN [sq1 EXCEPT ![ato] = NoPiece, ![afrom] = sq1[ato]]
               ELSE sq1
        hasCap == turn.capture # None
        sq3 == IF hasCap
               THEN [sq2 EXCEPT ![turn.capture] =
                        IF b.captures = <<>> THEN NoPiece ELSE Last(b.captures)]
               ELSE sq2
        caps1 == IF hasCap /\ b.captures # <<>> THEN Front(b.captures)
                 ELSE b.captures
        piece1 == [kind |-> IF turn.promote_from # NoKind THEN turn.promote_from
                            ELSE piece0.kind,
                   color |-> piece0.color,
                   move_count |-> piece0.move_count - 1]
        turn1 == Not(b.whose_turn)
        prev_turn == IF moves1 = <<>> THEN NoTurn ELSE Last(moves1)
        ep == IF /\ moves1 # <<>>
                 /\ prev_turn.kind = "Pawn"
                 /\ Abs(Row(prev_turn.to) - Row(prev_turn.from)) = 2
              THEN PositionNew((Row(prev_turn.to) + Row(prev_turn.from)) \div 2,
                               Col(prev_turn.from))
              ELSE None
        clk == b.half_move_clock
        clk1 == IF Last(clk) = 0 THEN Front(clk)
                ELSE [clk EXCEPT ![Len(clk)] = WrapI8(@ - 1)]
        fail == \/ piece0 = NoPiece
                \/ hasAdd /\ sq1[ato] = NoPiece
                \/ clk = <<>>
                \/ overflow_checks /\ ~InI8(Last(clk) - 1)
    IN  IF fail THEN [b |-> Panicked(b), ret |-> NoTurn]
        ELSE [b |-> [captures |-> caps1,
                     squares |-> [sq3 EXCEPT ![turn.from] = piece1],
                     whose_turn |-> turn1,
                     moves |-> moves1,
                     half_move_clock |-> clk1,
                     en_passant_target |-> ep,
                     num_moves |-> IF turn1 = "Black" THEN b.num_moves - 1
                                   ELSE b.num_moves,
                     panic |-> FALSE],
              ret |-> turn]

(* Variant of undo_turn that unwraps the popped turn: an empty history is  *)
(* fatal instead of yielding None.                                         *)
UndoTurnUnwrap(b) ==
    IF b.panic THEN [b |-> b, ret |-> NoTurn]
    ELSE IF b.moves = <<>> THEN [b |-> Panicked(b), ret |-> NoTurn]
    ELSE UndoPopped(b)

(* Variants of undo_turn, each leaving out one step of the rollback: the   *)
(* pop of the captures stack; the pop of a half_move_clock frame; the      *)
(* recomputation of the en passant target; putting the captured piece      *)
(* back on its square.                                                     *)
UndoTurnKeepCaptures(b) ==
    IF b.panic \/ b.moves = <<>> THEN [b |-> b, ret |-> NoTurn]
    ELSE Only({ IF u.b.panic THEN u
                ELSE [u EXCEPT !.b.captures = b.captures]
                : u \in {UndoPopped(b)} })

UndoTurnDecrementOnly(b) ==
    IF b.panic \/ b.moves = <<>> THEN [b |-> b, ret |-> NoTurn]
    ELSE Only({ IF u.b.panic THEN u
                ELSE [u EXCEPT !.b.half_move_clock =
                         [b.half_move_clock EXCEPT ![Len(b.half_move_clock)] =
                             WrapI8(@ - 1)]]
                : u \in {UndoPopped(b)} })

UndoTurnKeepTarget(b) ==
    IF b.panic \/ b.moves = <<>> THEN [b |-> b, ret |-> NoTurn]
    ELSE Only({ IF u.b.panic THEN u
                ELSE [u EXCEPT !.b.en_passant_target = None]
                : u \in {UndoPopped(b)} })

UndoTurnDropCaptured(b) ==
    IF b.panic \/ b.moves = <<>> THEN [b |-> b, ret |-> NoTurn]
    ELSE Only({ IF u.b.panic \/ u.ret.capture = None \/ u.ret.capture = u.ret.from
                THEN u
                ELSE [u EXCEPT !.b.squares[u.ret.capture] = NoPiece]
                : u \in {UndoPopped(b)} })

(* Variant of undo_turn that decrements the full-move number for every    *)
(* turn undone.                                                            *)
UndoTurnCountEvery(b) ==
    IF b.panic \/ b.moves = <<>> THEN [b |-> b, ret |-> NoTurn]
    ELSE Only({ IF u.b.panic THEN u
                ELSE [u EXCEPT !.b.num_moves = b.num_moves - 1]
                : u \in {UndoPopped(b)} })

UndoTurn(b) ==
    IF b.panic \/ b.moves = <<>> THEN [b |-> b, ret |-> NoTurn]
    ELSE UndoPopped(b)

----------------------------------------------------------------------------
(* Piece::could_move_to: the geometric predicate used by attack detection *)
could_king_move_to(from, to) ==
    Abs(Row(from) - Row(to)) <= 1 /\ Abs(Col(from) - Col(to)) <= 1

could_rook_move_to(from, to) ==
    Row(from) = Row(to) \/ Col(from) = Row(to)

could_bishop_move_to(from, to) ==
    \/ Row(from) - Col(from) = Row(to) - Col(to)
    \/ Row(from) + Col(from) = Row(to) + Col(to)

could_queen_move_to(from, to) ==
    could_rook_move_to(from, to) \/ could_bishop_move_to(from, to)

could_knight_move_to(from, to) ==
    LET row_diff == Abs(Row(from) - Row(to))
        col_diff == Abs(Col(from) - Col(to))
    IN  (row_diff = 2 /\ col_diff = 1) \/ (row_diff = 1 /\ col_diff = 2)

could_pawn_move_to(piece, from, to, b) ==
    \E turn \in {get_prev_turn(b)} :
    LET col_diff == Abs(Col(from) - Col(to))
        row_diff == Row(from) - Row(to)
    IN  IF col_diff >= 2 THEN FALSE
        ELSE IF row_diff * get_direction(piece.color) <= 0 THEN FALSE
        ELSE IF /\ Row(from) # get_home(piece.color) + get_direction(piece.color)
                /\ Abs(row_diff) # 1 THEN FALSE
        ELSE IF Abs(row_diff) > 2 THEN FALSE
        ELSE IF at_position(b, to) # NoPiece /\ col_diff = 0 THEN FALSE
        ELSE IF at_position(b, to) = NoPiece /\ col_diff = 1
             THEN /\ turn # NoTurn
                  /\ turn.kind = "Pawn"
                  /\ Row(to) = Row(turn.to)
                  /\ Row(to) + get_direction(piece.color) * 2 = Row(turn.from)
                  /\ Abs(Col(to) - Col(turn.to)) = 1
        ELSE TRUE

could_move_to(piece, from, to, b) ==
    IF from = to THEN FALSE
    ELSE CASE piece.kind = "King" -> could_king_move_to(from, to)
           [] piece.kind = "Queen" -> could_queen_move_to(from, to)
           [] piece.kind = "Rook" -> could_rook_move_to(from, to)
           [] piece.kind = "Bishop" -> could_bishop_move_to(from, to)
           [] piece.kind = "Knight" -> could_knight_move_to(from, to)
           [] piece.kind = "Pawn" -> could_pawn_move_to(piece, from, to, b)

----------------------------------------------------------------------------
(* are_pieces_attacking, find_king, is_king_attacked *)
RECURSIVE FirstPieceOnRay(_, _, _, _)
(* The while-let loop of are_pieces_attacking: the first occupied square   *)
(* met walking from pos in direction (r, c), or None at the board's edge.  *)
FirstPieceOnRay(b, pos, r, c) ==
    Only({ IF p = None THEN None
           ELSE IF at_position(b, p) # NoPiece THEN p
           ELSE FirstPieceOnRay(b, p, r, c) : p \in {Offset(pos, r, c)} })

(* Variant of the ray scan that does not stop at the first occupied        *)
(* square: any piece of the colour further along the ray counts.           *)
RayAttacksThrough(b, position, color, r, c) ==
    \E k \in 1..7 :
        \E pos \in {IF Offset(position, k * r, k * c) = None THEN position
                    ELSE Offset(position, k * r, k * c)} :
            /\ pos # position
            /\ at_position(b, pos).color = color
            /\ could_move_to(at_position(b, pos), pos, position, b)

RayAttacks(b, position, color, r, c) ==
    \E pos \in {FirstPieceOnRay(b, position, r, c)} :
        /\ pos # None
        /\ \E piece \in {at_position(b, pos)} :
              /\ piece.color = color
              /\ could_move_to(piece, pos, position, b)

are_pieces_attacking(b, position, color) ==
    \/ \E r \in {0 - 1, 0, 1} : \E c \in {0 - 1, 0, 1} :
          /\ ~(r = 0 /\ c = 0)
          /\ RayAttacks(b, position, color, r, c)
    \/ \E i \in 1..Len(KNIGHT_MOVES) :
          \E pos \in {Offset(position, KNIGHT_MOVES[i][1], KNIGHT_MOVES[i][2])} :
              /\ pos # None
              /\ at_position(b, pos).kind = "Knight"
              /\ at_position(b, pos).color = color

Kings(b, color) ==
    {i \in 0..63 : at_position(b, i).kind = "King" /\ at_position(b, i).color = color}

Min(S) == CHOOSE x \in S : \A y \in S : x <= y

find_king(b, color) ==
    Only({ IF K = {} THEN None ELSE Min(K) : K \in {Kings(b, color)} })

(* is_move_legal: make_turn, probe the mover's king, undo_turn.  The       *)
(* result carries the board as the call leaves it.                         *)
is_move_legal(b, turn) ==
    Only({ IF b1.panic THEN [valid |-> FALSE, b |-> b1]
           ELSE Only({ IF king = None THEN [valid |-> FALSE, b |-> Panicked(b1)]
                       ELSE [valid |-> ~are_pieces_attacking(b1, king, b1.whose_turn),
                             b |-> UndoTurn(b1).b]
                       : king \in {find_king(b1, Not(b1.whose_turn))} })
           : b1 \in {MakeTurn(b, turn)} })

is_king_attacked(b, color) ==
    \E king \in {find_king(b, color)} :
        are_pieces_attacking(b, king, Not(color))

----------------------------------------------------------------------------------------------------------------------------------------
(* Move generation.  A generator state st is [b: the board as the probes   *)
(* so far have left it, moves: the Vec<Turn> collected so far].            *)
get_turn_simple(b, from, to) ==
    LET this_piece == at_position(b, from)
        other_piece == at_position(b, to)
    IN  IF other_piece # NoPiece
        THEN IF other_piece.color # this_piece.color
             THEN new_capture(this_piece.kind, from, to)
             ELSE NoTurn
        ELSE new_basic(this_piece.kind, from, to)

add_move_if_legal(st, turn) ==
    IF st.b.panic THEN st
    ELSE Only({ Only({ [b |-> res.b,
                        moves |-> IF res.valid THEN Append(st.moves, t)
                                  ELSE st.moves]
                       : res \in {is_move_legal(st.b, t)} })
                : t \in {turn} })

RECURSIVE LineRayStopAtDropped(_, _, _, _, _)
(* Variant of the inner loop of line_moves that leaves a ray as soon as    *)
(* the legality filter has dropped a move.                                 *)
LineRayStopAtDropped(st, pos, new_pos, r_off, c_off) ==
    Only({ IF off_pos = None \/ st.b.panic THEN st
           ELSE Only({ IF turn = NoTurn THEN st
                       ELSE Only({ IF turn.capture # None \/ st1.moves = st.moves
                                   THEN st1
                                   ELSE LineRayStopAtDropped(st1, pos, off_pos,
                                                             r_off, c_off)
                                   : st1 \in {add_move_if_legal(st, turn)} })
                       : turn \in {get_turn_simple(st.b, pos, off_pos)} })
           : off_pos \in {Offset(new_pos, r_off, c_off)} })

RECURSIVE LineRay(_, _, _, _, _)
(* The inner while-let loop of line_moves for one direction. *)
LineRay(st, pos, new_pos, r_off, c_off) ==
    Only({ IF off_pos = None \/ st.b.panic THEN st
           ELSE Only({ IF turn = NoTurn THEN st
                       ELSE Only({ IF turn.capture # None THEN st1
                                   ELSE LineRay(st1, pos, off_pos, r_off, c_off)
                                   : st1 \in {add_move_if_legal(st, turn)} })
                       : turn \in {get_turn_simple(st.b, pos, off_pos)} })
           : off_pos \in {Offset(new_pos, r_off, c_off)} })

RECURSIVE LineDirs(_, _, _, _)
LineDirs(st, pos, directions, i) ==
    IF i > Len(directions) THEN st
    ELSE Only({ LineDirs(st1, pos, directions, i + 1)
                : st1 \in {LineRay(st, pos, pos, directions[i][1], directions[i][2])} })

line_moves(st, pos, directions) == LineDirs(st, pos, directions, 1)

rook_moves(st, pos) ==
    line_moves(st, pos, << <<1, 0>>, <<0, 1>>, <<0 - 1, 0>>, <<0, 0 - 1>> >>)

bishop_moves(st, pos) ==
    line_moves(st, pos, << <<1, 1>>, <<1, 0 - 1>>, <<0 - 1, 0 - 1>>, <<0 - 1, 1>> >>)

queen_moves(st, pos) ==
    line_moves(st, pos,
        << <<1, 0>>, <<0, 1>>, <<0 - 1, 0>>, <<0, 0 - 1>>,
           <<1, 1>>, <<1, 0 - 1>>, <<0 - 1, 0 - 1>>, <<0 - 1, 1>> >>)

(* One pass of the loop shared by king_moves and knight_moves: the simple  *)
(* turn to the square at offset (r, c), if that square is on the board.    *)
StepMove(st, pos, r, c) ==
    Only({ IF to = None \/ st.b.panic THEN st
           ELSE Only({ IF turn = NoTurn THEN st ELSE add_move_if_legal(st, turn)
                       : turn \in {get_turn_simple(st.b, pos, to)} })
           : to \in {Offset(pos, r, c)} })

RECURSIVE StepMoves(_, _, _, _)
StepMoves(st, pos, offsets, i) ==
    IF i > Len(offsets) THEN st
    ELSE Only({ StepMoves(st1, pos, offsets, i + 1)
                : st1 \in {StepMove(st, pos, offsets[i][1], offsets[i][2])} })

(* for r in [-1, 0, 1] { for c in [-1, 0, 1] { if r != 0 || c != 0 *)
KingOffsets ==
    << <<0 - 1, 0 - 1>>, <<0 - 1, 0>>, <<0 - 1, 1>>, <<0, 0 - 1>>,
       <<0, 1>>, <<1, 0 - 1>>, <<1, 0>>, <<1, 1>> >>

(* The columns c in start..stop of castling_single_move, whose squares     *)
(* Position::new(row, c) are tested for attack.                            *)
CastlingCheckedCols(from_pos, col, res_col) ==
    LET from == Col(from_pos) + col
        to == res_col - col
        start == IF from < to THEN from ELSE to
        stop == IF from > to THEN from ELSE to
    IN  start .. (stop - 1)

(* Variant of castling_single_move that accepts a rook whatever its        *)
(* move_count.                                                             *)
castling_single_move_any_rook(st, new_pos, from_pos, col, res_col, row) ==
    LET b == st.b
        other_piece == at_position(b, new_pos)
        this_piece == at_position(b, from_pos)
    IN  IF other_piece = NoPiece THEN [st |-> st, continue |-> TRUE]
        ELSE IF ~(/\ other_piece.kind = "Rook"
                  /\ other_piece.color = this_piece.color)
        THEN [st |-> st, continue |-> FALSE]
        ELSE IF \E c \in CastlingCheckedCols(from_pos, col, res_col) :
                   are_pieces_attacking(b, PositionNew(row, c), Not(this_piece.color))
        THEN [st |-> st, continue |-> FALSE]
        ELSE [st |-> add_move_if_legal(st,
                        new_additional(this_piece.kind,
                            <<from_pos, PositionNew(Row(from_pos), res_col)>>,
                            <<new_pos, PositionNew(Row(from_pos), res_col - col)>>)),
              continue |-> TRUE]

(* [st, continue]: continue is the bool castling_single_move returns. *)
castling_single_move(st, new_pos, from_pos, col, res_col, row) ==
    LET b == st.b
        other_piece == at_position(b, new_pos)
        this_piece == at_position(b, from_pos)
    IN  IF other_piece = NoPiece THEN [st |-> st, continue |-> TRUE]
        ELSE IF ~(/\ other_piece.kind = "Rook"
                  /\ other_piece.color = this_piece.color
                  /\ other_piece.move_count = 0)
        THEN [st |-> st, continue |-> FALSE]
        ELSE IF \E c \in CastlingCheckedCols(from_pos, col, res_col) :
                   are_pieces_attacking(b, PositionNew(row, c), Not(this_piece.color))
        THEN [st |-> st, continue |-> FALSE]
        ELSE [st |-> add_move_if_legal(st,
                        new_additional(this_piece.kind,
                            <<from_pos, PositionNew(Row(from_pos), res_col)>>,
                            <<new_pos, PositionNew(Row(from_pos), res_col - col)>>)),
              continue |-> TRUE]

RECURSIVE CastlingScan(_, _, _, _, _, _)
(* The while-let loop of castling_moves for one side. *)
CastlingScan(st, new_pos, from_pos, row, col, res_col) ==
    Only({ IF pos = None \/ st.b.panic THEN st
           ELSE Only({ IF ~res.continue THEN res.st
                       ELSE CastlingScan(res.st, pos, from_pos, row, col, res_col)
                       : res \in {castling_single_move(st, pos, from_pos, col, res_col, row)} })
           : pos \in {Offset(new_pos, row, col)} })

(* Variant of castling_moves with the destination columns of the two      *)
(* sides exchanged.                                                        *)
castling_moves_swapped(st, from_pos) ==
    Only({ CastlingScan(st1, from_pos, from_pos, 0, 0 - 1, 6)
           : st1 \in {CastlingScan(st, from_pos, from_pos, 0, 1, 2)} })

castling_moves(st, from_pos) ==
    Only({ CastlingScan(st1, from_pos, from_pos, 0, 0 - 1, 2)
           : st1 \in {CastlingScan(st, from_pos, from_pos, 0, 1, 6)} })

king_moves(st, from_pos) ==
    Only({ LET piece == at_position(st1.b, from_pos)
           IN  IF st1.b.panic THEN st1
               ELSE IF piece.move_count = 0 /\ Row(from_pos) = get_home(piece.color)
               THEN castling_moves(st1, from_pos)
               ELSE st1
           : st1 \in {StepMoves(st, from_pos, KingOffsets, 1)} })

knight_moves(st, pos) == StepMoves(st, pos, KNIGHT_MOVES, 1)

RECURSIVE AddPromotions(_, _, _, _, _, _)
(* for promo in PROMOTABLE_TYPES { add_move_if_legal(new_promotion(..)) } *)
AddPromotions(st, kind, from, to, capture, i) ==
    IF i > Len(PROMOTABLE_TYPES) THEN st
    ELSE Only({ AddPromotions(st1, kind, from, to, capture, i + 1)
                : st1 \in {add_move_if_legal(st,
                     new_promotion(kind, from, to, PROMOTABLE_TYPES[i], capture))} })

(* Variant of pawn_advance without the promotion branch: the advance onto  *)
(* the last row is an ordinary move.                                       *)
pawn_advance_plain(st, pos) ==
    LET piece == at_position(st.b, pos)
        dir == get_direction(piece.color)
        pos_offset == Offset(pos, dir, 0)
        pos_offset2 == Offset(pos_offset, dir, 0)
    IN  IF st.b.panic \/ pos_offset = None THEN st
        ELSE IF at_position(st.b, pos_offset) # NoPiece THEN st
        ELSE Only({
            IF Row(pos) # get_home(piece.color) + dir \/ st1.b.panic THEN st1
            ELSE IF pos_offset2 = None THEN [st1 EXCEPT !.b = Panicked(st1.b)]
            ELSE IF at_position(st1.b, pos_offset2) # NoPiece THEN st1
            ELSE add_move_if_legal(st1, new_basic(piece.kind, pos, pos_offset2))
            : st1 \in {add_move_if_legal(st,
                                new_basic(piece.kind, pos, pos_offset))} })

(* Variant of pawn_advance as in the earlier board.rs: the two-square      *)
(* advance is tried whether or not the square passed over is empty.        *)
pawn_advance_over(st, pos) ==
    LET piece == at_position(st.b, pos)
        dir == get_direction(piece.color)
        pos_offset == Offset(pos, dir, 0)
        pos_offset2 == Offset(pos_offset, dir, 0)
    IN  IF st.b.panic \/ pos_offset = None THEN st
        ELSE Only({
            IF Row(pos) # get_home(piece.color) + dir \/ st1.b.panic THEN st1
            ELSE IF pos_offset2 = None THEN [st1 EXCEPT !.b = Panicked(st1.b)]
            ELSE IF at_position(st1.b, pos_offset2) # NoPiece THEN st1
            ELSE add_move_if_legal(st1, new_basic(piece.kind, pos, pos_offset2))
            : st1 \in {IF at_position(st.b, pos_offset) # NoPiece THEN st
                       ELSE IF Row(pos_offset) = get_home(Not(piece.color))
                       THEN AddPromotions(st, piece.kind, pos, pos_offset, FALSE, 1)
                       ELSE add_move_if_legal(st,
                                new_basic(piece.kind, pos, pos_offset))} })

pawn_advance(st, pos) ==
    LET piece == at_position(st.b, pos)
        dir == get_direction(piece.color)
        pos_offset == Offset(pos, dir, 0)
        pos_offset2 == Offset(pos_offset, dir, 0)
    IN  IF st.b.panic \/ pos_offset = None THEN st
        ELSE IF at_position(st.b, pos_offset) # NoPiece THEN st
        ELSE Only({
            IF Row(pos) # get_home(piece.color) + dir \/ st1.b.panic THEN st1
            ELSE IF pos_offset2 = None THEN [st1 EXCEPT !.b = Panicked(st1.b)]
            ELSE IF at_position(st1.b, pos_offset2) # NoPiece THEN st1
            ELSE add_move_if_legal(st1, new_basic(piece.kind, pos, pos_offset2))
            : st1 \in {IF Row(pos_offset) = get_home(Not(piece.color))
                       THEN AddPromotions(st, piece.kind, pos, pos_offset, FALSE, 1)
                       ELSE add_move_if_legal(st,
                                new_basic(piece.kind, pos, pos_offset))} })

pawn_capture(st, pos, c_off) ==
    LET this_piece == at_position(st.b, pos)
        pos_offset == Offset(pos, get_direction(this_piece.color), c_off)
        other_piece == at_position(st.b, pos_offset)
    IN  IF st.b.panic \/ pos_offset = None THEN st
        ELSE IF other_piece = NoPiece THEN st
        ELSE IF this_piece.color # Not(other_piece.color) THEN st
        ELSE IF Row(pos_offset) = get_home(other_piece.color)
        THEN AddPromotions(st, other_piece.kind, pos, pos_offset, TRUE, 1)
        ELSE add_move_if_legal(st, new_capture(this_piece.kind, pos, pos_offset))

(* Variant of pawn_en_passant that captures on the target square itself,  *)
(* as an ordinary capture would.                                           *)
pawn_en_passant_on_target(st, pos) ==
    LET this_piece == at_position(st.b, pos)
        target == st.b.en_passant_target
    IN  IF st.b.panic \/ target = None THEN st
        ELSE IF /\ Row(pos) + get_direction(this_piece.color) = Row(target)
                /\ Abs(Col(pos) - Col(target)) = 1
        THEN add_move_if_legal(st, new_capture(this_piece.kind, pos, target))
        ELSE st

(* Variant of pawn_en_passant without the row condition: any pawn one      *)
(* column away from the target may capture.                                *)
pawn_en_passant_any_row(st, pos) ==
    LET this_piece == at_position(st.b, pos)
        target == st.b.en_passant_target
    IN  IF st.b.panic \/ target = None THEN st
        ELSE IF Abs(Col(pos) - Col(target)) = 1
        THEN add_move_if_legal(st,
                new_capture_complex(this_piece.kind, pos, target,
                                    PositionNew(Row(pos), Col(target))))
        ELSE st

pawn_en_passant(st, pos) ==
    LET this_piece == at_position(st.b, pos)
        target == st.b.en_passant_target
    IN  IF st.b.panic \/ target = None THEN st
        ELSE IF /\ Row(pos) + get_direction(this_piece.color) = Row(target)
                /\ Abs(Col(pos) - Col(target)) = 1
        THEN add_move_if_legal(st,
                new_capture_complex(this_piece.kind, pos, target,
                                    PositionNew(Row(pos), Col(target))))
        ELSE st

pawn_moves(st, pos) ==
    Only({ Only({ Only({ pawn_en_passant(st3, pos)
                         : st3 \in {pawn_capture(st2, pos, 1)} })
                  : st2 \in {pawn_capture(st1, pos, 0 - 1)} })
           : st1 \in {pawn_advance(st, pos)} })

(* get_piece_moves(pos) on board b: the turns of the piece on pos and the  *)
(* board as the call leaves it.                                            *)
get_piece_moves(b, pos) ==
    LET st == [b |-> b, moves |-> <<>>]
        kind == at_position(b, pos).kind
    IN  IF b.panic THEN st
        ELSE CASE kind = "King" -> king_moves(st, pos)
               [] kind = "Queen" -> queen_moves(st, pos)
               [] kind = "Rook" -> rook_moves(st, pos)
               [] kind = "Bishop" -> bishop_moves(st, pos)
               [] kind = "Knight" -> knight_moves(st, pos)
               [] kind = "Pawn" -> pawn_moves(st, pos)
               [] OTHER -> [st EXCEPT !.b = Panicked(b)]

(* One pass of the for i in 0..64 loop of do_get_moves. *)
DoGetMovesAt(st, i) ==
    LET piece == at_position(st.b, i)
    IN  IF st.b.panic THEN st
        ELSE IF piece # NoPiece /\ piece.color = st.b.whose_turn
        THEN Only({ [b |-> res.b, moves |-> st.moves \o res.moves]
                    : res \in {get_piece_moves(st.b, i)} })
        ELSE st

RECURSIVE DoGetMovesRange(_, _, _)
(* The passes for i = lo, lo + 1, .., hi in that order (the range is cut   *)
(* in halves so that the evaluation nests 6 deep instead of 64).           *)
DoGetMovesRange(st, lo, hi) ==
    IF lo = hi THEN DoGetMovesAt(st, lo)
    ELSE Only({ DoGetMovesRange(st1, (lo + hi) \div 2 + 1, hi)
                : st1 \in {DoGetMovesRange(st, lo, (lo + hi) \div 2)} })

do_get_moves(b) == DoGetMovesRange([b |-> b, moves |-> <<>>], 0, 63)

is_threefold_repetition(b) == FALSE

is_50_move_rule_after(b) == Last(b.half_move_clock) > 100

is_50_move_rule(b) == Last(b.half_move_clock) >= 100

get_moves(b) ==
    IF b.panic THEN [b |-> b, moves |-> <<>>]
    ELSE IF b.half_move_clock = <<>> THEN [b |-> Panicked(b), moves |-> <<>>]
    ELSE IF is_threefold_repetition(b) \/ is_50_move_rule(b)
    THEN [b |-> b, moves |-> <<>>]
    ELSE do_get_moves(b)

----------------------------------------------------------------------------
(* The terminal queries (board/mod.rs).  Those that take &mut self         *)
(* enumerate the moves, so each result is [b: the board as the call leaves *)
(* it, ret: the value returned].                                           *)
Playing == <<"Playing">>

Win(color, reason) == <<"Win", color, reason>>

Draw(reason) == <<"Draw", reason>>

is_check(b) ==
    IF b.panic THEN [b |-> b, ret |-> FALSE]
    ELSE IF find_king(b, b.whose_turn) = None THEN [b |-> Panicked(b), ret |-> FALSE]
    ELSE [b |-> b, ret |-> is_king_attacked(b, b.whose_turn)]

(* is_check() && do_get_moves().is_empty() *)
is_checkmate(b) ==
    Only({ IF chk.b.panic \/ ~chk.ret THEN [b |-> chk.b, ret |-> FALSE]
           ELSE Only({ [b |-> res.b, ret |-> ~res.b.panic /\ res.moves = <<>>]
                       : res \in {do_get_moves(chk.b)} })
           : chk \in {is_check(b)} })

(* Variant of is_stalemate that asks get_moves, which answers with an      *)
(* empty list once the fifty-move rule holds.                              *)
is_stalemate_by_get_moves(b) ==
    Only({ IF chk.b.panic \/ chk.ret THEN [b |-> chk.b, ret |-> FALSE]
           ELSE Only({ [b |-> res.b, ret |-> ~res.b.panic /\ res.moves = <<>>]
                       : res \in {get_moves(chk.b)} })
           : chk \in {is_check(b)} })

(* !is_check() && do_get_moves().is_empty() *)
is_stalemate(b) ==
    Only({ IF chk.b.panic \/ chk.ret THEN [b |-> chk.b, ret |-> FALSE]
           ELSE Only({ [b |-> res.b, ret |-> ~res.b.panic /\ res.moves = <<>>]
                       : res \in {do_get_moves(chk.b)} })
           : chk \in {is_check(b)} })

is_insufficient_material(b) == FALSE

FiftyMoveQuery(b) ==
    IF b.half_move_clock = <<>> THEN [b |-> Panicked(b), ret |-> FALSE]
    ELSE [b |-> b, ret |-> is_50_move_rule(b)]

(* Variant of get_game_state that tests the fifty-move rule first. *)
get_game_state_clock_first(b) ==
    Only({ IF fifty.b.panic THEN [b |-> fifty.b, ret |-> Playing]
           ELSE IF fifty.ret THEN [b |-> fifty.b, ret |-> Draw("FiftyMoveRule")]
           ELSE Only({
               IF cm.b.panic THEN [b |-> cm.b, ret |-> Playing]
               ELSE IF cm.ret THEN [b |-> cm.b, ret |-> Win(Not(cm.b.whose_turn), "Checkmate")]
               ELSE Only({
                   IF sm.b.panic THEN [b |-> sm.b, ret |-> Playing]
                   ELSE IF sm.ret THEN [b |-> sm.b, ret |-> Draw("Stalemate")]
                   ELSE [b |-> sm.b, ret |-> Playing]
                   : sm \in {is_stalemate(cm.b)} })
               : cm \in {is_checkmate(fifty.b)} })
           : fifty \in {FiftyMoveQuery(b)} })

get_game_state(b) ==
    Only({ IF cm.b.panic THEN [b |-> cm.b, ret |-> Playing]
           ELSE IF cm.ret THEN [b |-> cm.b, ret |-> Win(Not(cm.b.whose_turn), "Checkmate")]
           ELSE Only({
               IF sm.b.panic THEN [b |-> sm.b, ret |-> Playing]
               ELSE IF sm.ret THEN [b |-> sm.b, ret |-> Draw("Stalemate")]
               ELSE Only({
                   IF fifty.b.panic THEN [b |-> fifty.b, ret |-> Playing]
                   ELSE IF fifty.ret THEN [b |-> fifty.b, ret |-> Draw("FiftyMoveRule")]
                   ELSE IF is_threefold_repetition(fifty.b)
                   THEN [b |-> fifty.b, ret |-> Draw("ThreefoldRepetition")]
                   ELSE IF is_insufficient_material(fifty.b)
                   THEN [b |-> fifty.b, ret |-> Draw("InsufficientMaterial")]
                   ELSE [b |-> fifty.b, ret |-> Playing]
                   : fifty \in {FiftyMoveQuery(sm.b)} })
               : sm \in {is_stalemate(cm.b)} })
           : cm \in {is_checkmate(b)} })

(* Variant of is_draw without the leading !is_checkmate(). *)
is_draw_any(b) ==
    Only({ IF sm.b.panic THEN [b |-> sm.b, ret |-> FALSE]
           ELSE IF sm.ret \/ is_threefold_repetition(sm.b)
           THEN [b |-> sm.b, ret |-> TRUE]
           ELSE Only({
               IF fifty.b.panic THEN [b |-> fifty.b, ret |-> FALSE]
               ELSE [b |-> fifty.b,
                     ret |-> fifty.ret \/ is_insufficient_material(fifty.b)]
               : fifty \in {FiftyMoveQuery(sm.b)} })
           : sm \in {is_stalemate(b)} })

(* !is_checkmate() && (is_stalemate() || is_threefold_repetition()         *)
(*                     || is_50_move_rule() || is_insufficient_material()) *)
is_draw(b) ==
    Only({ IF cm.b.panic \/ cm.ret THEN [b |-> cm.b, ret |-> FALSE]
           ELSE Only({
               IF sm.b.panic THEN [b |-> sm.b, ret |-> FALSE]
               ELSE IF sm.ret \/ is_threefold_repetition(sm.b)
               THEN [b |-> sm.b, ret |-> TRUE]
               ELSE Only({
                   IF fifty.b.panic THEN [b |-> fifty.b, ret |-> FALSE]
                   ELSE [b |-> fifty.b,
                         ret |-> fifty.ret \/ is_insufficient_material(fifty.b)]
                   : fifty \in {FiftyMoveQuery(sm.b)} })
               : sm \in {is_stalemate(cm.b)} })
           : cm \in {is_checkmate(b)} })

(* is_draw() || is_checkmate() *)
is_game_over(b) ==
    Only({ IF dr.b.panic \/ dr.ret THEN dr
           ELSE is_checkmate(dr.b)
           : dr \in {is_draw(b)} })

----------------------------------------------------------------------------
(* main.rs: num_moves(board, depth), the recursive count of leaf           *)
(* positions.  A count state ns is [b: the board, count: the leaves so     *)
(* far].                                                                   *)
RECURSIVE num_moves(_, _)
RECURSIVE NumMovesTurns(_, _, _, _, _)
RECURSIVE NumMovesRange(_, _, _, _)

(* make_turn(turn); count += num_moves(board, depth - 1); undo_turn().expect(..) *)
NumMovesTurn(ns, turn, depth) ==
    IF ns.b.panic THEN ns
    ELSE Only({ Only({ Only({ IF u.ret = NoTurn
                              THEN [b |-> Panicked(u.b), count |-> ns.count]
                              ELSE [b |-> u.b, count |-> ns.count + r.count]
                              : u \in {UndoTurn(r.b)} })
                       : r \in {num_moves(b1, depth - 1)} })
                : b1 \in {MakeTurn(ns.b, turn)} })

(* for turn in moves, for the turns lo..hi of the list in order *)
NumMovesTurns(ns, turns, lo, hi, depth) ==
    IF lo > hi THEN ns
    ELSE IF lo = hi THEN NumMovesTurn(ns, turns[lo], depth)
    ELSE Only({ NumMovesTurns(ns1, turns, (lo + hi) \div 2 + 1, hi, depth)
                : ns1 \in {NumMovesTurns(ns, turns, lo, (lo + hi) \div 2, depth)} })

NumMovesAt(ns, i, depth) ==
    LET piece == at_position(ns.b, i)
    IN  IF ns.b.panic THEN ns
        ELSE IF piece # NoPiece /\ piece.color = ns.b.whose_turn
        THEN Only({ NumMovesTurns([b |-> res.b, count |-> ns.count],
                                  res.moves, 1, Len(res.moves), depth)
                    : res \in {get_piece_moves(ns.b, i)} })
        ELSE ns

(* for i in 0..64, for the squares lo..hi in order *)
NumMovesRange(ns, lo, hi, depth) ==
    IF lo = hi THEN NumMovesAt(ns, lo, depth)
    ELSE Only({ NumMovesRange(ns1, (lo + hi) \div 2 + 1, hi, depth)
                : ns1 \in {NumMovesRange(ns, lo, (lo + hi) \div 2, depth)} })

num_moves(b, depth) ==
    IF depth = 0 THEN [b |-> b, count |-> 1]
    ELSE NumMovesRange([b |-> b, count |-> 0], 0, 63, depth)

----------------------------------------------------------------------------
(* The driver.  A caller (main.rs: num_moves) asks for the moves, makes    *)
(* one of the turns it was given, and undoes turns.  line selects the      *)
(* game: its first plies follow a fixed sequence of squares (each must be  *)
(* a turn the generator returned), after which MaxFree plies are free.     *)
MaxFree == 1

Sq(row, col) == row * 8 + col

ScriptFree == <<>>

(* 1.h4 g5 2.hxg5 a6 3.g6 a5 4.gxh7 a4: a white pawn on h7 beside g8 *)
ScriptPromotion ==
    << <<Sq(1, 7), Sq(3, 7)>>, <<Sq(6, 6), Sq(4, 6)>>,
       <<Sq(3, 7), Sq(4, 6)>>, <<Sq(6, 0), Sq(5, 0)>>,
       <<Sq(4, 6), Sq(5, 6)>>, <<Sq(5, 0), Sq(4, 0)>>,
       <<Sq(5, 6), Sq(6, 7)>>, <<Sq(4, 0), Sq(3, 0)>> >>

(* 1.e4 d5 2.exd5 Qxd5 3.a3 Qe5 4.a4: the black queen faces e1 on the e-file *)
ScriptQueenFile ==
    << <<Sq(1, 4), Sq(3, 4)>>, <<Sq(6, 3), Sq(4, 3)>>,
       <<Sq(3, 4), Sq(4, 3)>>, <<Sq(7, 3), Sq(4, 3)>>,
       <<Sq(1, 0), Sq(2, 0)>>, <<Sq(4, 3), Sq(4, 4)>>,
       <<Sq(2, 0), Sq(3, 0)>> >>

(* 1.e4 e6 2.e5 d5 *)
ScriptEnPassant ==
    << <<Sq(1, 4), Sq(3, 4)>>, <<Sq(6, 4), Sq(5, 4)>>,
       <<Sq(3, 4), Sq(4, 4)>>, <<Sq(6, 3), Sq(4, 3)>> >>

(* 1.e4 d5 2.Bb5: the bishop gives check on the a4-e8 diagonal *)
ScriptCheck ==
    << <<Sq(1, 4), Sq(3, 4)>>, <<Sq(6, 3), Sq(4, 3)>>,
       <<Sq(0, 5), Sq(4, 1)>> >>

(* 1.g4 b6 2.Ng2 Ba6 3.Ng3 h6 4.Bg2 g6 5.e4 c6: f1 and g1 are empty, the   *)
(* black bishop on a6 looks at f1 along the a6-f1 diagonal.  (The knight   *)
(* goes g1-g2-g3: the steps of KNIGHT_MOVES.)                              *)
ScriptCastleAttacked ==
    << <<Sq(1, 6), Sq(3, 6)>>, <<Sq(6, 1), Sq(5, 1)>>,
       <<Sq(0, 6), Sq(1, 6)>>, <<Sq(7, 2), Sq(5, 0)>>,
       <<Sq(1, 6), Sq(2, 6)>>, <<Sq(6, 7), Sq(5, 7)>>,
       <<Sq(0, 5), Sq(1, 6)>>, <<Sq(6, 6), Sq(5, 6)>>,
       <<Sq(1, 4), Sq(3, 4)>>, <<Sq(6, 2), Sq(5, 2)>> >>

(* On the castling board of White: Ke1-f1 a6 Kf1-e1 a5, the king is back  *)
(* on e1 having moved twice.                                               *)
ScriptKingMoved ==
    << <<Sq(0, 4), Sq(0, 5)>>, <<Sq(6, 0), Sq(5, 0)>>,
       <<Sq(0, 5), Sq(0, 4)>>, <<Sq(5, 0), Sq(4, 0)>> >>

(* On the castling board of White: Rh1-g1 a6 Rg1-h1 a5, the king's rook is *)
(* back on h1 having moved twice.                                          *)
ScriptRookMoved ==
    << <<Sq(0, 7), Sq(0, 6)>>, <<Sq(6, 0), Sq(5, 0)>>,
       <<Sq(0, 6), Sq(0, 7)>>, <<Sq(5, 0), Sq(4, 0)>> >>

(* 1.h4 g5 2.hxg5 Ng7 3.g6 Rg8 4.gxh7 a6: a white pawn on h7 with h8 empty *)
(* and the black rook on g8.  (The knight steps g8-g7.)                    *)
ScriptPromotionAdvance ==
    << <<Sq(1, 7), Sq(3, 7)>>, <<Sq(6, 6), Sq(4, 6)>>,
       <<Sq(3, 7), Sq(4, 6)>>, <<Sq(7, 6), Sq(6, 6)>>,
       <<Sq(4, 6), Sq(5, 6)>>, <<Sq(7, 7), Sq(7, 6)>>,
       <<Sq(5, 6), Sq(6, 7)>>, <<Sq(6, 0), Sq(5, 0)>> >>

(* 1.g4 e6 2.Ng2 a6 3.Ng3 a5 4.Bg2 h6 5.d3 Bb4: f1 and g1 are empty, king *)
(* and rook h1 unmoved, and the bishop on b4 checks the king on e1        *)
ScriptCastleInCheck ==
    << <<Sq(1, 6), Sq(3, 6)>>, <<Sq(6, 4), Sq(5, 4)>>,
       <<Sq(0, 6), Sq(1, 6)>>, <<Sq(6, 0), Sq(5, 0)>>,
       <<Sq(1, 6), Sq(2, 6)>>, <<Sq(5, 0), Sq(4, 0)>>,
       <<Sq(0, 5), Sq(1, 6)>>, <<Sq(6, 7), Sq(5, 7)>>,
       <<Sq(1, 3), Sq(2, 3)>>, <<Sq(7, 5), Sq(3, 1)>> >>

(* 1.e4 a5 2.a3 Ra6 3.h3 d5 4.Bb5: the bishop on b5 checks the king on e8 *)
(* along c6 and d7, and the rook on a6 reaches c6 past b6                  *)
ScriptBlockCheck ==
    << <<Sq(1, 4), Sq(3, 4)>>, <<Sq(6, 0), Sq(4, 0)>>,
       <<Sq(1, 0), Sq(2, 0)>>, <<Sq(7, 0), Sq(5, 0)>>,
       <<Sq(1, 7), Sq(2, 7)>>, <<Sq(6, 3), Sq(4, 3)>>,
       <<Sq(0, 5), Sq(4, 1)>> >>

(* 1.g4 e5, then MaxQuietPlies plies in which White's knight steps g1-g2-g1 *)
(* (the step the generator gives a knight) and Black's bishop goes         *)
(* f8-e7-f8: no capture and no pawn move.                                  *)
MaxQuietPlies == 100

ScriptFifty ==
    [n \in 1..(2 + MaxQuietPlies) |->
        IF n = 1 THEN <<Sq(1, 6), Sq(3, 6)>>
        ELSE IF n = 2 THEN <<Sq(6, 4), Sq(4, 4)>>
        ELSE IF n % 2 = 1
        THEN IF ((n - 1) \div 2) % 2 = 1
             THEN <<Sq(0, 6), Sq(1, 6)>> ELSE <<Sq(1, 6), Sq(0, 6)>>
        ELSE IF ((n - 2) \div 2) % 2 = 1
             THEN <<Sq(7, 5), Sq(6, 4)>> ELSE <<Sq(6, 4), Sq(7, 5)>>]

Script(l) ==
    CASE l = "promotion" -> ScriptPromotion
      [] l = "promotion_advance" -> ScriptPromotionAdvance
      [] l = "king_moved" -> ScriptKingMoved
      [] l = "rook_moved" -> ScriptRookMoved
      [] l = "castle_attacked" -> ScriptCastleAttacked
      [] l = "castle_in_check" -> ScriptCastleInCheck
      [] l = "block_check" -> ScriptBlockCheck
      [] l = "queen_file" -> ScriptQueenFile
      [] l = "en_passant" -> ScriptEnPassant
      [] l = "check" -> ScriptCheck
      [] l = "fifty" -> ScriptFifty
      [] OTHER -> ScriptFree

(* The castling scenario: the standard position with b, c, d, f and g      *)
(* emptied on the home row of the given colour, that colour to move.       *)
CastlingBoard(color) ==
    [from_start EXCEPT
        !.squares = [i \in 0..63 |->
            IF Row(i) = get_home(color) /\ Col(i) \in {1, 2, 3, 5, 6}
            THEN NoPiece ELSE from_start.squares[i]],
        !.whose_turn = color]

InitBoard(l) ==
    CASE l \in {"castle_white", "king_moved", "rook_moved"} -> CastlingBoard("White")
      [] l = "castle_black" -> CastlingBoard("Black")
      [] OTHER -> from_start

StartLines ==
    {"free", "promotion", "queen_file", "en_passant", "check", "castle_attacked",
     "promotion_advance", "castle_in_check"}

Lines ==
    StartLines \cup {"castle_white", "castle_black", "king_moved", "rook_moved"}

InScript(l, b, turn) ==
    LET n == Len(b.moves) + 1
    IN  IF n <= Len(Script(l))
        THEN turn.from = Script(l)[n][1] /\ turn.to = Script(l)[n][2]
        ELSE n <= Len(Script(l)) + MaxFree

Init ==
    /\ line \in Lines
    /\ board = InitBoard(line)
    /\ generated = <<>>
    /\ op = "init"
    /\ before = InitBoard(line)
    /\ returned = NoTurn
    /\ overflow_checks \in BOOLEAN
    /\ input = <<>>
    /\ output = <<>>

GetMovesCall ==
    /\ ~board.panic
    /\ op # "get_moves"
    /\ \E res \in {get_moves(board)} :
          /\ board' = res.b
          /\ generated' = res.moves
    /\ op' = "get_moves"
    /\ before' = board
    /\ returned' = NoTurn
    /\ UNCHANGED <<line, overflow_checks, input, output>>

MakeTurnCall ==
    /\ ~board.panic
    /\ op = "get_moves"
    /\ \E i \in 1..Len(generated) :
          /\ InScript(line, board, generated[i])
          /\ board' = MakeTurn(board, generated[i])
    /\ generated' = <<>>
    /\ op' = "make_turn"
    /\ before' = board
    /\ returned' = NoTurn
    /\ UNCHANGED <<line, overflow_checks, input, output>>

UndoTurnCall ==
    /\ ~board.panic
    /\ \E res \in {UndoTurn(board)} :
          /\ board' = res.b
          /\ returned' = res.ret
    /\ generated' = <<>>
    /\ op' = "undo_turn"
    /\ before' = board
    /\ UNCHANGED <<line, overflow_checks, input, output>>

Next == GetMovesCall \/ MakeTurnCall \/ UndoTurnCall

Spec == Init /\ [][Next]_vars

----------------------------------------------------------------------------
(* A second driver, for the half-move clock: a caller that keeps calling   *)
(* make_turn.  After 1.f3 e5 2.g4 the two sides shuttle a knight           *)
(* (Nb1-c3-b1, Ng8-f6-g8), which neither captures nor moves a pawn; at any *)
(* point the side to move may instead push its a-pawn, Black may capture   *)
(* on g4 with the knight on f6, or mate with Qd8-h4 when f6 is empty.      *)
MaxClockPlies == 131

MaxAfterReset == 1

ClockOpening ==
    << <<Sq(1, 5), Sq(2, 5)>>, <<Sq(6, 4), Sq(4, 4)>>, <<Sq(1, 6), Sq(3, 6)>> >>

(* A turn that is neither a capture nor a pawn move. *)
Quiet(turn) == turn.capture = None /\ turn.kind # "Pawn"

Max(S) == CHOOSE x \in S : \A y \in S : x >= y

LastReset(moves) == Max({0} \cup {i \in 1..Len(moves) : ~Quiet(moves[i])})

TrailingQuiet(moves) == Len(moves) - LastReset(moves)

ShuttleSquares(color) ==
    IF color = "White" THEN <<Sq(0, 1), Sq(2, 2)>> ELSE <<Sq(7, 6), Sq(5, 5)>>

HasKnight(b, pos, color) ==
    at_position(b, pos).kind = "Knight" /\ at_position(b, pos).color = color

(* The game goes on: the opening is played and the queen is not on h4. *)
ClockOpen(b) ==
    /\ ~b.panic
    /\ Len(b.moves) >= Len(ClockOpening)
    /\ Len(b.moves) < MaxClockPlies
    /\ at_position(b, Sq(3, 7)) = NoPiece

ClockMake(turn) ==
    /\ turn # NoTurn
    /\ board' = MakeTurn(board, turn)
    /\ generated' = <<>>
    /\ op' = "make_turn"
    /\ before' = board
    /\ returned' = NoTurn
    /\ UNCHANGED <<line, overflow_checks, input, output>>

InitClock ==
    /\ line = "clock"
    /\ board = from_start
    /\ generated = <<>>
    /\ op = "init"
    /\ before = from_start
    /\ returned = NoTurn
    /\ overflow_checks \in BOOLEAN
    /\ input = <<>>
    /\ output = <<>>

OpeningCall ==
    /\ ~board.panic
    /\ Len(board.moves) < Len(ClockOpening)
    /\ \E step \in {ClockOpening[Len(board.moves) + 1]} :
          ClockMake(get_turn_simple(board, step[1], step[2]))

QuietCall ==
    /\ ClockOpen(board)
    /\ \/ LastReset(board.moves) = Len(ClockOpening)
       \/ TrailingQuiet(board.moves) < MaxAfterReset
    /\ \E sq \in {ShuttleSquares(board.whose_turn)} :
       \E k \in 1..2 :
          /\ HasKnight(board, sq[k], board.whose_turn)
          /\ ClockMake(get_turn_simple(board, sq[k], sq[3 - k]))

PawnCall ==
    /\ ClockOpen(board)
    /\ LastReset(board.moves) = Len(ClockOpening)
    /\ \E from \in {Sq(get_home(board.whose_turn) + get_direction(board.whose_turn), 0)} :
          /\ at_position(board, from).kind = "Pawn"
          /\ ClockMake(get_turn_simple(board, from,
                           Offset(from, get_direction(board.whose_turn), 0)))

CaptureCall ==
    /\ ClockOpen(board)
    /\ LastReset(board.moves) = Len(ClockOpening)
    /\ board.whose_turn = "Black"
    /\ HasKnight(board, Sq(5, 5), "Black")
    /\ ClockMake(get_turn_simple(board, Sq(5, 5), Sq(3, 6)))

MateCall ==
    /\ ClockOpen(board)
    /\ LastReset(board.moves) = Len(ClockOpening)
    /\ board.whose_turn = "Black"
    /\ at_position(board, Sq(5, 5)) = NoPiece
    /\ ClockMake(get_turn_simple(board, Sq(7, 3), Sq(3, 7)))

NextClock == OpeningCall \/ QuietCall \/ PawnCall \/ CaptureCall \/ MateCall

SpecClock == InitClock /\ [][NextClock]_vars

----------------------------------------------------------------------------
(* make_turn called with turns that no generator produced: any origin,     *)
(* destination, capture square and additional_move over a few squares of   *)
(* the starting position (e1 king, e2 pawn, e3 empty, e7 black pawn).      *)
MaxContractPlies == 1

ContractSquares == {Sq(0, 4), Sq(1, 4), Sq(2, 4), Sq(6, 4)}

ContractTurns(b) ==
    { [kind |-> IF at_position(b, from) = NoPiece THEN "Pawn"
                ELSE at_position(b, from).kind,
       from |-> from, to |-> to, capture |-> capture,
       additional_move |-> additional,
       promote_to |-> NoKind, promote_from |-> NoKind] :
        from \in ContractSquares, to \in ContractSquares,
        capture \in ContractSquares \cup {None},
        additional \in {<<>>} \cup (ContractSquares \X ContractSquares) }

InitContract ==
    /\ line = "contract"
    /\ board = from_start
    /\ generated = <<>>
    /\ op = "init"
    /\ before = from_start
    /\ returned = NoTurn
    /\ overflow_checks \in BOOLEAN
    /\ input = <<>>
    /\ output = <<>>

(* returned holds the turn that was handed to make_turn. *)
ContractMakeCall ==
    /\ ~board.panic
    /\ Len(board.moves) < MaxContractPlies
    /\ \E turn \in ContractTurns(board) :
          /\ board' = MakeTurn(board, turn)
          /\ returned' = turn
    /\ generated' = <<>>
    /\ op' = "make_turn"
    /\ before' = board
    /\ UNCHANGED <<line, overflow_checks, input, output>>

NextContract == ContractMakeCall

SpecContract == InitContract /\ [][NextContract]_vars

----------------------------------------------------------------------------
(* The functions of Position, applied to inputs drawn from bounded sets:   *)
(* input is the argument list of the call and output its result.           *)
MaxOffset == 7

MaxCoordinate == 8

InitPosition ==
    /\ line = "position"
    /\ board = BoardDefault
    /\ generated = <<>>
    /\ op = "init"
    /\ before = BoardDefault
    /\ returned = NoTurn
    /\ overflow_checks = FALSE
    /\ input = <<>>
    /\ output = <<>>

ColorCall ==
    /\ op = "init"
    /\ \E p \in 0..63, q \in 0..63 :
          /\ input' = <<p, q>>
          /\ output' = <<PositionColor(p), PositionColor(q)>>
    /\ op' = "color"
    /\ UNCHANGED <<board, generated, before, returned, line, overflow_checks>>

OffsetCall ==
    /\ op = "init"
    /\ \E p \in 0..63, row \in (0 - MaxOffset)..MaxOffset,
          col \in (0 - MaxOffset)..MaxOffset :
          /\ input' = <<p, row, col>>
          /\ output' = <<Offset(p, row, col)>>
    /\ op' = "offset"
    /\ UNCHANGED <<board, generated, before, returned, line, overflow_checks>>

NewCall ==
    /\ op = "init"
    /\ \E row \in (0 - 1)..MaxCoordinate, col \in (0 - 1)..MaxCoordinate :
          /\ input' = <<row, col>>
          /\ \E p \in {PositionNewChecked(row, col)} :
                output' = IF p.panic THEN <<"panic">>
                          ELSE <<p.ret, Row(p.ret), Col(p.ret)>>
    /\ op' = "new"
    /\ UNCHANGED <<board, generated, before, returned, line, overflow_checks>>

NextPosition == ColorCall \/ OffsetCall \/ NewCall

SpecPosition == InitPosition /\ [][NextPosition]_vars

----------------------------------------------------------------------------
(* Boards built by from_fen and then played on: input holds the six        *)
(* sections handed to from_fen and output the Ok or the FenError it gave.  *)
(* After an error there is no board, and nothing more happens.             *)
StartPlacement ==
    <<"r", "n", "b", "q", "k", "b", "n", "r", "/",
      "p", "p", "p", "p", "p", "p", "p", "p", "/",
      "8", "/", "8", "/", "8", "/", "8", "/",
      "P", "P", "P", "P", "P", "P", "P", "P", "/",
      "R", "N", "B", "Q", "K", "B", "N", "R">>

FenPlacements ==
    {<<"k", "7", "K">>, <<"k", "2", "Q", "5", "K">>, StartPlacement,
     <<"r", "4", "k", "3", "r">>, <<"1", "r", "3", "k", "3", "K">>}

FenCastlings == {<<"-">>, <<"k">>, <<"K", "Q", "k", "q">>}

FenTargets == {<<"-">>, <<"e", "3">>, <<"e", "6">>}

FenClocks == {0, 5}

FenInputs ==
    { [positions |-> p, to_move |-> <<t>>, castling |-> c,
       en_passant_target |-> e, half_move_clock |-> <<TRUE, h>>,
       num_moves |-> <<TRUE, n>>] :
        p \in FenPlacements, t \in {"w", "b"}, c \in FenCastlings,
        e \in FenTargets, h \in FenClocks, n \in {1, 7} }

InitFen ==
    /\ line = "fen"
    /\ \E fen \in FenInputs :
          /\ input = <<fen>>
          /\ \E res \in {from_fen(fen)} :
                /\ output = res.err
                /\ board = res.b
                /\ before = res.b
    /\ generated = <<>>
    /\ op = "init"
    /\ returned = NoTurn
    /\ overflow_checks \in BOOLEAN

FenGetMovesCall == output = <<"Ok">> /\ GetMovesCall

FenMakeTurnCall == output = <<"Ok">> /\ MakeTurnCall

FenUndoTurnCall == output = <<"Ok">> /\ UndoTurnCall

NextFen == FenGetMovesCall \/ FenMakeTurnCall \/ FenUndoTurnCall

SpecFen == InitFen /\ [][NextFen]_vars

----------------------------------------------------------------------------
(* Properties.  In a state with op = "get_moves", before is the board the  *)
(* generator was called on, generated the list it returned and board the   *)
(* board as it left it.                                                    *)

IsEnPassant(turn) == turn.capture # None /\ turn.capture # turn.to

IsCastling(turn) == turn.additional_move # <<>>

(* C1: round-trip law.  For every board B reachable from from_start() and  *)
(* every turn t that get_moves() returns on B, make_turn(t) followed by    *)
(* undo_turn() gives back B in every field.                                *)
C1_RoundTrip ==
    (line \in StartLines /\ op = "get_moves" /\ ~board.panic) =>
        \A i \in 1..Len(generated) :
            UndoTurn(MakeTurn(before, generated[i])).b = before

(* C2: move generation is a pure query: get_moves() returns with the board *)
(* unchanged in every field.                                               *)
C2_GetMovesPure ==
    (op = "get_moves" /\ ~board.panic) => board = before

(* C3: legality soundness.  After make_turn of a turn returned by the      *)
(* generator, the king of the side that just moved is not attacked by the  *)
(* opponent: is_king_attacked(mover) is false and no turn the opponent is  *)
(* then offered captures that king.  Stated on the position that follows a *)
(* generated turn: before is that position, generated the opponent's list. *)
C3_LegalitySoundness ==
    (op = "get_moves" /\ ~board.panic /\ before.moves # <<>>) =>
        \E mover \in {Not(before.whose_turn)} :
            /\ ~is_king_attacked(before, mover)
            /\ \A i \in 1..Len(generated) :
                  generated[i].capture # find_king(before, mover)

(* C4: in every state reachable from from_start() by generated turns the   *)
(* board holds exactly one White king and exactly one Black king.          *)
C4_OneKingEach ==
    (line \in StartLines) =>
        /\ Cardinality(Kings(board, "White")) = 1
        /\ Cardinality(Kings(board, "Black")) = 1

(* C5: perft from the standard starting position: 20 leaves at depth 1,    *)
(* 400 at depth 2, 8902 at depth 3, 197281 at depth 4, 4865609 at depth 5  *)
(* (checked to depth MaxPerft).                                            *)
MaxPerft == 2

PerftExpected == <<20, 400, 8902, 197281, 4865609>>

C5_Perft ==
    (line = "free" /\ op = "init") =>
        \A depth \in 1..MaxPerft :
            depth <= Len(PerftExpected) =>
                num_moves(board, depth).count = PerftExpected[depth]

(* C6: undo_turn() on a board whose history is empty returns None, does    *)
(* not panic and leaves every field of the board unchanged.                *)
C6_UndoEmpty ==
    (op = "undo_turn" /\ before.moves = <<>> /\ ~before.panic) =>
        /\ returned = NoTurn
        /\ board = before

C6_Witness ==
    op = "undo_turn" /\ before.moves = <<>> /\ ~before.panic

(* C7: strict LIFO pairing.  From from_start(), once every make_turn of a  *)
(* generated turn has been undone, the board equals the starting board,    *)
(* the history is empty and the next undo_turn() returns None; every undo  *)
(* in between returns the turn that was made.                              *)
C7_LifoPairing ==
    (line \in StartLines /\ op = "undo_turn" /\ ~board.panic) =>
        /\ (before.moves # <<>>) => returned = Last(before.moves)
        /\ (board.moves = <<>>) =>
              /\ board = from_start
              /\ UndoTurn(board).ret = NoTurn

(* C8: en passant scenario.  After 1.e4 e6 2.e5 d5 the legal moves of the  *)
(* white pawn on e5 contain exactly one capture, onto d6 with capture      *)
(* square d5; after make_turn of it d5 is empty and the white pawn stands  *)
(* on d6.                                                                  *)
AfterEnPassantScript ==
    line = "en_passant" /\ ~board.panic /\ Len(board.moves) = Len(ScriptEnPassant)

C8_EnPassantScenario ==
    /\ AfterEnPassantScript =>
          \E res \in {get_piece_moves(board, Sq(4, 4))} :
          \E caps \in {{i \in 1..Len(res.moves) : res.moves[i].capture # None}} :
              /\ Cardinality(caps) = 1
              /\ \A i \in caps :
                    /\ res.moves[i].to = Sq(5, 3)
                    /\ res.moves[i].capture = Sq(4, 3)
                    /\ \E b1 \in {MakeTurn(res.b, res.moves[i])} :
                          /\ ~b1.panic
                          /\ at_position(b1, Sq(4, 3)) = NoPiece
                          /\ at_position(b1, Sq(5, 3)).kind = "Pawn"
                          /\ at_position(b1, Sq(5, 3)).color = "White"
    /\ (/\ line = "en_passant"
        /\ op = "make_turn"
        /\ Len(board.moves) = Len(ScriptEnPassant) + 1
        /\ Last(board.moves).from = Sq(4, 4)
        /\ Last(board.moves).capture # None) =>
          /\ at_position(board, Sq(4, 3)) = NoPiece
          /\ at_position(board, Sq(5, 3)).kind = "Pawn"
          /\ at_position(board, Sq(5, 3)).color = "White"

(* C8 witness: the capture e5xd6 has been made on the board. *)
C8_Witness ==
    /\ line = "en_passant"
    /\ op = "make_turn"
    /\ Len(board.moves) = Len(ScriptEnPassant) + 1
    /\ Last(board.moves).from = Sq(4, 4)
    /\ IsEnPassant(Last(board.moves))

(* C9: en passant rule.  A turn whose capture square differs from its      *)
(* destination is generated only when en_passant_target is set and the     *)
(* mover is a pawn of the side to move one row behind the target and one   *)
(* column away; it goes to the target and captures, on the pawn's own row  *)
(* in the target's column, the enemy pawn whose two-square advance was the *)
(* preceding turn.                                                         *)
EnPassantWellFormed(b, turn) ==
    LET target == b.en_passant_target
        piece == at_position(b, turn.from)
        victim == at_position(b, turn.capture)
        prev == get_prev_turn(b)
    IN  /\ target # None
        /\ piece.kind = "Pawn"
        /\ piece.color = b.whose_turn
        /\ Row(turn.from) + get_direction(piece.color) = Row(target)
        /\ Abs(Col(turn.from) - Col(target)) = 1
        /\ turn.to = target
        /\ turn.capture = PositionNew(Row(turn.from), Col(target))
        /\ victim.kind = "Pawn"
        /\ victim.color = Not(b.whose_turn)
        /\ prev # NoTurn
        /\ prev.kind = "Pawn"
        /\ prev.capture = None
        /\ prev.to = turn.capture
        /\ Col(prev.from) = Col(prev.to)
        /\ Abs(Row(prev.to) - Row(prev.from)) = 2

C9_EnPassantRule ==
    (op = "get_moves" /\ ~board.panic) =>
        \A i \in 1..Len(generated) :
            IsEnPassant(generated[i]) => EnPassantWellFormed(before, generated[i])

C9_Witness ==
    /\ op = "get_moves"
    /\ ~board.panic
    /\ \E i \in 1..Len(generated) : IsEnPassant(generated[i])

(* C10: castling scenario.  From the standard position with b, c, d, f, g  *)
(* of the mover's home row emptied, the king's legal moves contain the     *)
(* king-side castling (king to column 6, rook from column 7 to column 5)   *)
(* and the queen-side castling (king to column 2, rook from column 0 to    *)
(* column 3), for White on row 0 and for Black on row 7.                   *)
CastlingTurn(row, king_col, rook_from, rook_to) ==
    new_additional("King", <<Sq(row, 4), Sq(row, king_col)>>,
                   <<Sq(row, rook_from), Sq(row, rook_to)>>)

HasBothCastlings(turns, row) ==
    /\ \E i \in 1..Len(turns) : turns[i] = CastlingTurn(row, 6, 7, 5)
    /\ \E i \in 1..Len(turns) : turns[i] = CastlingTurn(row, 2, 0, 3)

C10_CastlingScenario ==
    \A color \in {"White", "Black"} :
        /\ (board = CastlingBoard(color)) =>
              HasBothCastlings(
                  get_piece_moves(board, Sq(get_home(color), 4)).moves,
                  get_home(color))
        /\ (op = "get_moves" /\ before = CastlingBoard(color)) =>
              HasBothCastlings(generated, get_home(color))

C10_Witness ==
    /\ op = "get_moves"
    /\ before = CastlingBoard("Black")
    /\ \E i \in 1..Len(generated) : IsCastling(generated[i])

(* C11: castling through attack is rejected.  For every castling turn the  *)
(* generator returns, no square strictly between the king's square and its *)
(* destination, on the king's row, is attacked by the opponent at the time *)
(* of generation.                                                          *)
Between(a, b) == {c \in 0..7 : (a < c /\ c < b) \/ (b < c /\ c < a)}

C11_CastlingThroughAttack ==
    (op = "get_moves" /\ ~board.panic) =>
        \A i \in 1..Len(generated) :
            IsCastling(generated[i]) =>
                \A c \in Between(Col(generated[i].from), Col(generated[i].to)) :
                    ~are_pieces_attacking(before,
                                          PositionNew(Row(generated[i].from), c),
                                          Not(before.whose_turn))

(* C12: castling eligibility.  A castling turn is generated only if the    *)
(* king has move_count 0 and stands on its colour's home row, and the      *)
(* first piece met from the king toward that side is a rook of the same    *)
(* colour with move_count 0; so none is generated once the history holds a *)
(* move of that king or a move of that rook as primary piece.              *)
MoverTurns(b) == {i \in 1..Len(b.moves) : (Len(b.moves) - i) % 2 = 1}

CastlingEligible(b, turn) ==
    LET king == at_position(b, turn.from)
        rook_pos == turn.additional_move[1]
        rook == at_position(b, rook_pos)
    IN  /\ king.kind = "King"
        /\ king.color = b.whose_turn
        /\ king.move_count = 0
        /\ Row(turn.from) = get_home(king.color)
        /\ rook.kind = "Rook"
        /\ rook.color = king.color
        /\ rook.move_count = 0
        /\ Row(rook_pos) = Row(turn.from)
        /\ \A c \in Between(Col(turn.from), Col(rook_pos)) :
              at_position(b, PositionNew(Row(turn.from), c)) = NoPiece
        /\ \A i \in MoverTurns(b) :
              /\ b.moves[i].kind # "King"
              /\ ~(/\ b.moves[i].kind = "Rook"
                   /\ rook_pos \in {b.moves[i].from, b.moves[i].to})

C12_CastlingEligibility ==
    (op = "get_moves" /\ ~board.panic) =>
        \A i \in 1..Len(generated) :
            IsCastling(generated[i]) => CastlingEligible(before, generated[i])

(* C12 witness: the king's rook has moved and come back; the generator     *)
(* still returns a castling turn (with the other rook).                    *)
C12_Witness ==
    /\ op = "get_moves"
    /\ ~board.panic
    /\ line = "rook_moved"
    /\ Len(before.moves) = Len(ScriptRookMoved)
    /\ \E i \in 1..Len(generated) : IsCastling(generated[i])

(* C13: promotion rule.  Whenever a pawn of the side to move can reach the *)
(* opponent's home row, by a one-square advance or by a diagonal capture,  *)
(* the generator offers for that destination exactly one turn per kind in  *)
(* Queen, Rook, Bishop, Knight (when the move passes the legality filter)  *)
(* and no turn without promote_to; after make_turn of such a turn the      *)
(* piece on the destination has kind promote_to and the pawn's colour.     *)
PromotionKinds == {PROMOTABLE_TYPES[k] : k \in 1..Len(PROMOTABLE_TYPES)}

(* The destinations on the opponent's home row of the pawn on pos, each    *)
(* with whether it is reached by capture.                                  *)
PromotionTargets(b, pos) ==
    LET piece == at_position(b, pos)
        dir == get_direction(piece.color)
    IN  { d \in { [to |-> Offset(pos, dir, c), capture |-> c # 0] : c \in {0 - 1, 0, 1} } :
            /\ d.to # None
            /\ Row(d.to) = get_home(Not(piece.color))
            /\ IF d.capture
               THEN /\ at_position(b, d.to) # NoPiece
                    /\ at_position(b, d.to).color = Not(piece.color)
               ELSE at_position(b, d.to) = NoPiece }

PassesFilter(b, pos, d) ==
    \E b1 \in {MakeTurn(b, new_promotion("Pawn", pos, d.to, "Queen", d.capture))} :
        ~b1.panic /\ ~is_king_attacked(b1, b.whose_turn)

PromotionOffered(b, turns, b_after, pos, d) ==
    \E ts \in {{i \in 1..Len(turns) : turns[i].from = pos /\ turns[i].to = d.to}} :
        /\ \A i \in ts :
              /\ turns[i].promote_to \in PromotionKinds
              /\ (turns[i].capture # None) = d.capture
              /\ \E b1 \in {MakeTurn(b_after, turns[i])} :
                    /\ ~b1.panic
                    /\ at_position(b1, d.to).kind = turns[i].promote_to
                    /\ at_position(b1, d.to).color = b.whose_turn
        /\ \E n \in {IF PassesFilter(b, pos, d) THEN 1 ELSE 0} :
              \A kind \in PromotionKinds :
                  Cardinality({i \in ts : turns[i].promote_to = kind}) = n

C13_PromotionRule ==
    (op = "get_moves" /\ ~board.panic) =>
        \A pos \in 0..63 :
            (/\ at_position(before, pos).kind = "Pawn"
             /\ at_position(before, pos).color = before.whose_turn) =>
                \A d \in PromotionTargets(before, pos) :
                    PromotionOffered(before, generated, board, pos, d)

(* C13 witness: the generator returned promotions by advance and by        *)
(* capture for the same pawn.                                              *)
C13_Witness ==
    /\ op = "get_moves"
    /\ ~board.panic
    /\ \E i, j \in 1..Len(generated) :
          /\ generated[i].from = generated[j].from
          /\ generated[i].promote_to # NoKind
          /\ generated[j].promote_to # NoKind
          /\ generated[i].capture = None
          /\ generated[j].capture # None

(* C14: fifty-move rule.  Along any sequence of make_turn calls,           *)
(* is_50_move_rule() is true exactly when at least 100 consecutive         *)
(* half-moves without capture or pawn move end the history: it becomes     *)
(* true at 100, stays true after every further such make_turn, and is      *)
(* false after a capture or pawn move.                                     *)
C14_FiftyMoveRule ==
    /\ ~board.panic
    /\ is_50_move_rule(board) <=> (TrailingQuiet(board.moves) >= 100)

(* C15: get_game_state() classifies with a fixed priority: Win(opponent of *)
(* the side to move, Checkmate) if the king is attacked and no move        *)
(* exists; otherwise Draw(Stalemate) if no move exists; otherwise          *)
(* Draw(FiftyMoveRule) if the clock is at least 100; otherwise Playing.  A *)
(* checkmate with the clock at 100 or more is a Win, and a Win always has  *)
(* the reason Checkmate.                                                   *)
Classified(b, attacked, nomoves) ==
    IF attacked /\ nomoves THEN Win(Not(b.whose_turn), "Checkmate")
    ELSE IF nomoves THEN Draw("Stalemate")
    ELSE IF Last(b.half_move_clock) >= 100 THEN Draw("FiftyMoveRule")
    ELSE Playing

C15_GameStatePriority ==
    ~board.panic =>
        \E g \in {get_game_state(board)} :
            ~g.b.panic =>
                /\ g.ret = Classified(board,
                                      is_king_attacked(board, board.whose_turn),
                                      do_get_moves(board).moves = <<>>)
                /\ g.ret[1] = "Win" => g.ret[3] = "Checkmate"

(* C15 witness: a checkmate with the clock at 100 or more, classified as a *)
(* win for the side that mated.                                            *)
C15_Witness ==
    /\ ~board.panic
    /\ Last(board.half_move_clock) >= 100
    /\ is_king_attacked(board, board.whose_turn)
    /\ get_game_state(board) = [b |-> board, ret |-> Win("Black", "Checkmate")]

(* C16: is_checkmate() is true exactly when the king of the side to move   *)
(* is attacked and the full enumeration is empty; is_stalemate() exactly   *)
(* when it is not attacked and the enumeration is empty.  With the clock   *)
(* at 100 or more and a legal move left, neither is true although          *)
(* get_moves() returns an empty list.                                      *)
C16_MateAndStalemate ==
    ~board.panic =>
        \E r \in {do_get_moves(board)} :
        \E attacked \in {is_king_attacked(board, board.whose_turn)} :
        \E mate \in {is_checkmate(board).ret} :
        \E stale \in {is_stalemate(board).ret} :
            ~r.b.panic =>
                /\ mate <=> (attacked /\ r.moves = <<>>)
                /\ stale <=> (~attacked /\ r.moves = <<>>)
                /\ (Last(board.half_move_clock) >= 100 /\ r.moves # <<>>) =>
                      /\ get_moves(board).moves = <<>>
                      /\ ~mate
                      /\ ~stale

(* C16 witness: the clock is at 100 or more, the side to move has a legal  *)
(* move, and get_moves() returns none.                                     *)
C16_Witness ==
    /\ ~board.panic
    /\ Last(board.half_move_clock) >= 100
    /\ do_get_moves(board).moves # <<>>
    /\ ~do_get_moves(board).b.panic
    /\ get_moves(board).moves = <<>>

(* C17: the length of the captures stack equals the number of turns in    *)
(* the history whose capture field is set, and after a capturing make_turn *)
(* the top of the stack is the piece that stood on the capture square.     *)
CaptureTurns(moves) == {i \in 1..Len(moves) : moves[i].capture # None}

C17_CapturesStack ==
    ~board.panic =>
        /\ Len(board.captures) = Cardinality(CaptureTurns(board.moves))
        /\ (op = "make_turn" /\ Last(board.moves).capture # None) =>
              Last(board.captures) = at_position(before, Last(board.moves).capture)

(* C17 witness: a second capture has just been made. *)
C17_Witness ==
    /\ ~board.panic
    /\ op = "make_turn"
    /\ Last(board.moves).capture # None
    /\ Len(board.captures) >= 2

(* C18: the half_move_clock stack is never empty, its top equals the       *)
(* number of consecutive turns at the end of the history that are neither  *)
(* captures nor pawn moves, and its length is 1 plus the number of turns   *)
(* in the history that are captures or pawn moves.                         *)
C18_ClockStack ==
    ~board.panic =>
        /\ board.half_move_clock # <<>>
        /\ Last(board.half_move_clock) = TrailingQuiet(board.moves)
        /\ Len(board.half_move_clock) =
              1 + Cardinality({i \in 1..Len(board.moves) : ~Quiet(board.moves[i])})

(* C18 witness: an undo_turn has returned to a history ending with two     *)
(* quiet turns after at least two captures or pawn moves.                  *)
C18_Witness ==
    /\ ~board.panic
    /\ op = "undo_turn"
    /\ returned # NoTurn
    /\ TrailingQuiet(board.moves) >= 2
    /\ Len(board.half_move_clock) >= 3

(* C19: en_passant_target is Some(s) if and only if the turn on top of the *)
(* history is a pawn move advancing two rows, and then s is the square     *)
(* passed over; it is None when the history is empty or ends with any      *)
(* other turn.                                                             *)
DoubleAdvance(turn) ==
    /\ turn # NoTurn
    /\ turn.kind = "Pawn"
    /\ Abs(Row(turn.to) - Row(turn.from)) = 2

C19_EnPassantTarget ==
    ~board.panic =>
        \E top \in {get_prev_turn(board)} :
            IF DoubleAdvance(top)
            THEN board.en_passant_target =
                    PositionNew((Row(top.from) + Row(top.to)) \div 2, Col(top.from))
            ELSE board.en_passant_target = None

(* C19 witness: undo_turn has brought a two-row pawn advance back on top   *)
(* of the history, and the target is set again.                            *)
C19_Witness ==
    /\ ~board.panic
    /\ op = "undo_turn"
    /\ returned # NoTurn
    /\ DoubleAdvance(get_prev_turn(board))
    /\ board.en_passant_target # None

(* C20: piece conservation.  From from_start(), the number of occupied     *)
(* squares plus the length of the captures stack is 32, 16 of each colour. *)
PiecesOf(b, color) ==
    Cardinality({i \in 0..63 : at_position(b, i).color = color})
        + Cardinality({i \in 1..Len(b.captures) : b.captures[i].color = color})

C20_PieceConservation ==
    (line \in StartLines /\ ~board.panic) =>
        /\ Cardinality({i \in 0..63 : at_position(board, i) # NoPiece})
              + Len(board.captures) = 32
        /\ \A i \in 1..Len(board.captures) : board.captures[i] # NoPiece
        /\ PiecesOf(board, "White") = 16
        /\ PiecesOf(board, "Black") = 16

(* C20 witness: a capture has been undone while an earlier capture is      *)
(* still on the stack.                                                     *)
C20_Witness ==
    /\ line \in StartLines
    /\ ~board.panic
    /\ op = "undo_turn"
    /\ returned # NoTurn
    /\ returned.capture # None
    /\ board.captures # <<>>

(* C21: from from_start(), whose_turn is White exactly when the history    *)
(* length is even, and num_moves is 1 plus the number of Black turns in    *)
(* the history; make_turn increments it only after a Black move and        *)
(* undo_turn decrements it only when a Black move is undone.               *)
BlackTurns(moves) == {i \in 1..Len(moves) : i % 2 = 0}

C21_TurnAndMoveNumber ==
    (line \in StartLines /\ ~board.panic) =>
        /\ (board.whose_turn = "White") <=> (Len(board.moves) % 2 = 0)
        /\ board.num_moves = 1 + Cardinality(BlackTurns(board.moves))
        /\ (op = "make_turn" /\ ~before.panic) =>
              board.num_moves - before.num_moves =
                  (IF before.whose_turn = "Black" THEN 1 ELSE 0)
        /\ (op = "undo_turn" /\ ~before.panic /\ returned # NoTurn) =>
              before.num_moves - board.num_moves =
                  (IF board.whose_turn = "Black" THEN 1 ELSE 0)

(* C21 witness: a Black move has been undone after an earlier full move.   *)
C21_Witness ==
    /\ line \in StartLines
    /\ ~board.panic
    /\ op = "undo_turn"
    /\ returned # NoTurn
    /\ board.whose_turn = "Black"
    /\ board.num_moves >= 2

(* C22: from from_start(), every piece's move_count is non-negative, and a *)
(* piece whose move_count is 0 stands on its starting square, a rook       *)
(* relocated as the second piece of a castling included.                   *)
C22_MoveCountSignal ==
    (line \in StartLines /\ ~board.panic) =>
        \A sq \in 0..63 :
            at_position(board, sq) # NoPiece =>
                /\ at_position(board, sq).move_count >= 0
                /\ at_position(board, sq).move_count = 0 =>
                      at_position(board, sq) = at_position(from_start, sq)

(* C23: contract violations in make_turn are fatal.  A turn whose origin   *)
(* square is empty, whose capture square is empty, whose additional_move   *)
(* origin is empty, or whose destination (or additional_move destination)  *)
(* is still occupied once the capture is removed and the moving pieces are *)
(* lifted aborts the call; make_turn never returns normally with two       *)
(* pieces merged onto one square or a piece overwritten.                   *)
Lifted(turn) ==
    {turn.from} \cup (IF turn.capture # None THEN {turn.capture} ELSE {})
        \cup (IF turn.additional_move # <<>> THEN {turn.additional_move[1]} ELSE {})

ContractViolation(b, turn) ==
    \/ at_position(b, turn.from) = NoPiece
    \/ turn.capture # None /\ at_position(b, turn.capture) = NoPiece
    \/ turn.capture # None /\ turn.capture = turn.from
    \/ /\ turn.additional_move # <<>>
       /\ \/ at_position(b, turn.additional_move[1]) = NoPiece
          \/ turn.additional_move[1] \in {turn.from, turn.capture}
          \/ /\ at_position(b, turn.additional_move[2]) # NoPiece
             /\ turn.additional_move[2] \notin Lifted(turn)
          \/ turn.additional_move[2] = turn.to
    \/ at_position(b, turn.to) # NoPiece /\ turn.to \notin Lifted(turn)

PieceBag(b) ==
    [c \in {"White", "Black"} |->
        Cardinality({i \in 0..63 : at_position(b, i).color = c})
            + Cardinality({i \in 1..Len(b.captures) : b.captures[i].color = c})]

C23_ContractViolationsFatal ==
    (op = "make_turn" /\ line = "contract") =>
        /\ board.panic <=> ContractViolation(before, returned)
        /\ ~board.panic =>
              /\ PieceBag(board) = PieceBag(before)
              /\ at_position(board, returned.to).color =
                    at_position(before, returned.from).color
              /\ Len(board.moves) = Len(before.moves) + 1

(* C23 witness: a turn from an occupied origin onto a square occupied by   *)
(* another piece, with no capture, has aborted.                            *)
C23_Witness ==
    /\ op = "make_turn"
    /\ line = "contract"
    /\ board.panic
    /\ at_position(before, returned.from) # NoPiece
    /\ returned.capture = None
    /\ returned.additional_move = <<>>
    /\ returned.to # returned.from
    /\ at_position(before, returned.to) # NoPiece

(* C24: for all squares, Position::color() gives two squares the same      *)
(* colour if and only if their row + col parities agree.                   *)
C24_SquareColor ==
    op = "color" =>
        (output[1] = output[2]) <=>
            ((Row(input[1]) + Col(input[1])) % 2 = (Row(input[2]) + Col(input[2])) % 2)

(* C25: p.offset(dRow, dCol) is Some(q) with q.row() = p.row() + dRow and  *)
(* q.col() = p.col() + dCol when both lie in [0,8), and None otherwise, so *)
(* an offset never wraps from one row's edge onto another row; and         *)
(* Position::new(r, c) has row() = r, col() = c, pos() = 8r + c.           *)
C25_OffsetAndNew ==
    /\ op = "offset" =>
          \E y \in {Row(input[1]) + input[2]} : \E x \in {Col(input[1]) + input[3]} :
              IF y \in 0..7 /\ x \in 0..7
              THEN /\ output[1] # None
                   /\ output[1] \in 0..63
                   /\ Row(output[1]) = y
                   /\ Col(output[1]) = x
              ELSE output[1] = None
    /\ (op = "new" /\ input[1] \in 0..7 /\ input[2] \in 0..7) =>
          output = <<8 * input[1] + input[2], input[1], input[2]>>

(* C25 witness: one column to the right of h1 is off the board although    *)
(* the next square index exists.                                           *)
C25_Witness ==
    /\ op = "offset"
    /\ input = <<Sq(0, 7), 0, 1>>
    /\ output = <<None>>

(* C26: round trip on a decoded position.  For a board built by from_fen   *)
(* with an en passant target (history empty), make_turn(t) followed by     *)
(* undo_turn() restores the board as it was built, en passant target,      *)
(* half-move clock and full-move number included.                          *)
C26_DecodedRoundTrip ==
    (/\ line = "fen"
     /\ op = "undo_turn"
     /\ returned # NoTurn
     /\ ~board.panic
     /\ board.moves = <<>>
     /\ from_fen(input[1]).b.en_passant_target # None) =>
        board = from_fen(input[1]).b

(* C27: are_pieces_attacking(sq, c) reports an attack by a rook, or by a   *)
(* queen moving as a rook, of colour c exactly when that piece is the      *)
(* nearest piece to sq along sq's row or column: a rook nearest on a       *)
(* diagonal ray is never reported, one nearest on the column always is.    *)
RayDirs == {d \in {0 - 1, 0, 1} \X {0 - 1, 0, 1} : d # <<0, 0>>}

Straight(d) == d[1] = 0 \/ d[2] = 0

NearestOnRay(b, sq, d, kinds) ==
    \E pos \in {FirstPieceOnRay(b, sq, d[1], d[2])} :
        pos # None /\ at_position(b, pos).kind \in kinds

C27_RookAttackDetection ==
    ~board.panic =>
        \A sq \in 0..63 : \A d \in RayDirs :
            /\ NearestOnRay(board, sq, d, {"Rook"}) =>
                  \E pos \in {FirstPieceOnRay(board, sq, d[1], d[2])} :
                      /\ RayAttacks(board, sq, at_position(board, pos).color, d[1], d[2])
                            <=> Straight(d)
                      /\ Straight(d) =>
                            are_pieces_attacking(board, sq, at_position(board, pos).color)
            /\ (NearestOnRay(board, sq, d, {"Queen"}) /\ Straight(d)) =>
                  \E pos \in {FirstPieceOnRay(board, sq, d[1], d[2])} :
                      are_pieces_attacking(board, sq, at_position(board, pos).color)

(* C28: pawn attack detection is forward-only.  An occupied enemy square   *)
(* diagonally one step forward of a pawn (a higher row for White, a lower  *)
(* row for Black) is reported as attacked by the pawn's colour, and a pawn *)
(* that is the nearest piece on a ray is never reported as attacking a     *)
(* square behind it.                                                       *)
PawnForwardTargets(b, pos) ==
    {sq \in {Offset(pos, get_direction(at_position(b, pos).color), 0 - 1),
             Offset(pos, get_direction(at_position(b, pos).color), 1)} :
        /\ sq # None
        /\ at_position(b, sq) # NoPiece
        /\ at_position(b, sq).color # at_position(b, pos).color}

Behind(b, pos, sq) ==
    (Row(sq) - Row(pos)) * get_direction(at_position(b, pos).color) < 0

C28_ForwardAttacks ==
    ~board.panic =>
        \A pos \in {p \in 0..63 : at_position(board, p).kind = "Pawn"} :
            \A sq \in PawnForwardTargets(board, pos) :
                are_pieces_attacking(board, sq, at_position(board, pos).color)

C28_NothingBehind ==
    ~board.panic =>
        \A sq \in 0..63 : \A d \in RayDirs :
            \A pos \in {FirstPieceOnRay(board, sq, d[1], d[2])} \ {None} :
                (at_position(board, pos).kind = "Pawn" /\ Behind(board, pos, sq)) =>
                    ~RayAttacks(board, sq, at_position(board, pos).color, d[1], d[2])

C28_PawnAttackForwardOnly == C28_ForwardAttacks /\ C28_NothingBehind

(* C29: knight geometry.  The destinations generated for a knight are      *)
(* exactly the on-board squares at (|dRow|, |dCol|) in {(1,2), (2,1)} not  *)
(* occupied by a friendly piece (subject to the legality filter), and      *)
(* are_pieces_attacking(sq, c) reports a knight of colour c standing on    *)
(* one of those 8 offset squares from sq.                                  *)
KnightShape(from, to) ==
    <<Abs(Row(from) - Row(to)), Abs(Col(from) - Col(to))>> \in {<<1, 2>>, <<2, 1>>}

KnightTargets(b, from) ==
    {to \in 0..63 :
        /\ KnightShape(from, to)
        /\ at_position(b, to).color # at_position(b, from).color}

C29_Generated ==
    (op = "get_moves" /\ ~before.panic /\ ~board.panic) =>
        \A from \in {p \in 0..63 : /\ at_position(before, p).kind = "Knight"
                                   /\ at_position(before, p).color = before.whose_turn} :
            /\ \A i \in 1..Len(generated) :
                  generated[i].from = from => KnightShape(from, generated[i].to)
            /\ \A to \in KnightTargets(before, from) :
                  is_move_legal(before, get_turn_simple(before, from, to)).valid =>
                      \E i \in 1..Len(generated) :
                          generated[i] = get_turn_simple(before, from, to)

C29_Attacks ==
    ~board.panic =>
        \A sq \in 0..63 :
            \A from \in {p \in 0..63 : /\ at_position(board, p).kind = "Knight"
                                       /\ KnightShape(p, sq)} :
                are_pieces_attacking(board, sq, at_position(board, from).color)

C29_KnightGeometry == C29_Generated /\ C29_Attacks

(* C30: ray blocking.  are_pieces_attacking(sq, c) never reports an attack *)
(* by a king, queen, rook, bishop or pawn that has another piece between   *)
(* it and sq: whenever it reports an attack, some piece of colour c either *)
(* stands on one of the 8 rays from sq with every square strictly between  *)
(* empty and with a movement predicate reaching sq, or is a knight on one  *)
(* of the KNIGHT_MOVES offsets.                                            *)
OnRay(sq, pos) ==
    /\ pos # sq
    /\ \/ Row(pos) = Row(sq)
       \/ Col(pos) = Col(sq)
       \/ Abs(Row(pos) - Row(sq)) = Abs(Col(pos) - Col(sq))

Sgn(x) == IF x > 0 THEN 1 ELSE IF x < 0 THEN 0 - 1 ELSE 0

(* The squares strictly between sq and a square pos on one of its rays. *)
StrictlyBetween(sq, pos) ==
    {PositionNew(Row(sq) + k * Sgn(Row(pos) - Row(sq)),
                 Col(sq) + k * Sgn(Col(pos) - Col(sq))) :
        k \in 1..(IF Abs(Row(pos) - Row(sq)) > Abs(Col(pos) - Col(sq))
                  THEN Abs(Row(pos) - Row(sq)) ELSE Abs(Col(pos) - Col(sq))) - 1}

Blocked(b, sq, pos) == \E q \in StrictlyBetween(sq, pos) : at_position(b, q) # NoPiece

UnblockedAttacker(b, sq, color, pos) ==
    /\ at_position(b, pos).color = color
    /\ \/ /\ OnRay(sq, pos)
          /\ could_move_to(at_position(b, pos), pos, sq, b)
          /\ ~Blocked(b, sq, pos)
       \/ /\ at_position(b, pos).kind = "Knight"
          /\ \E i \in 1..Len(KNIGHT_MOVES) :
                Offset(sq, KNIGHT_MOVES[i][1], KNIGHT_MOVES[i][2]) = pos

C30_RayBlocking ==
    ~board.panic =>
        \A sq \in 0..63 : \A color \in {"White", "Black"} :
            are_pieces_attacking(board, sq, color) <=>
                \E pos \in 0..63 : UnblockedAttacker(board, sq, color, pos)

(* C30 witness: a piece whose movement predicate reaches a square stands   *)
(* on a ray from it behind another piece, and the square is not reported   *)
(* as attacked by its colour.                                              *)
C30_Witness ==
    /\ ~board.panic
    /\ \E sq \in 0..63 : \E pos \in 0..63 :
          /\ at_position(board, pos).kind \in {"King", "Queen", "Rook", "Bishop", "Pawn"}
          /\ OnRay(sq, pos)
          /\ Blocked(board, sq, pos)
          /\ could_move_to(at_position(board, pos), pos, sq, board)
          /\ ~are_pieces_attacking(board, sq, at_position(board, pos).color)

(* C31: every turn the generator returns records the kind of the piece     *)
(* that moves: turn.kind is the kind of the piece standing on turn.from,   *)
(* and every promotion turn, by advance or by capture, has kind Pawn and   *)
(* promote_from Some(Pawn).                                                *)
C31_TurnRecordsMover ==
    (op = "get_moves" /\ ~before.panic /\ ~board.panic) =>
        \A i \in 1..Len(generated) :
            /\ generated[i].kind = at_position(before, generated[i].from).kind
            /\ generated[i].promote_to # NoKind =>
                  /\ generated[i].kind = "Pawn"
                  /\ generated[i].promote_from = "Pawn"

(* C32: no castling out of check.  Whenever the side to move is in check,  *)
(* the generator returns no turn with additional_move set.                 *)
C32_NoCastlingOutOfCheck ==
    (/\ op = "get_moves"
     /\ ~before.panic
     /\ ~board.panic
     /\ is_king_attacked(before, before.whose_turn)) =>
        \A i \in 1..Len(generated) : ~IsCastling(generated[i])

(* C33: pawn advances.  A one-square advance is generated only onto an     *)
(* empty square; a two-square advance only for a pawn on its colour's      *)
(* second row and only when the square passed over and the destination are *)
(* both empty; no advance turn carries a capture.                          *)
IsAdvance(b, turn) ==
    at_position(b, turn.from).kind = "Pawn" /\ Col(turn.from) = Col(turn.to)

AdvanceWellFormed(b, turn) ==
    \E dir \in {get_direction(at_position(b, turn.from).color)} :
        /\ turn.capture = None
        /\ at_position(b, turn.to) = NoPiece
        /\ \/ Row(turn.to) = Row(turn.from) + dir
           \/ /\ Row(turn.to) = Row(turn.from) + 2 * dir
              /\ Row(turn.from) = get_home(at_position(b, turn.from).color) + dir
              /\ at_position(b, PositionNew(Row(turn.from) + dir, Col(turn.from))) = NoPiece

C33_PawnAdvances ==
    (op = "get_moves" /\ ~before.panic /\ ~board.panic) =>
        \A i \in 1..Len(generated) :
            IsAdvance(before, generated[i]) => AdvanceWellFormed(before, generated[i])

(* C33 witness: a pawn of the side to move stands on its second row with   *)
(* the next square empty and the square after it occupied; its one-square  *)
(* advance is generated, and some other pawn's two-square advance is.      *)
C33_Witness ==
    /\ op = "get_moves"
    /\ ~before.panic
    /\ ~board.panic
    /\ \E i \in 1..Len(generated) :
          /\ IsAdvance(before, generated[i])
          /\ Abs(Row(generated[i].to) - Row(generated[i].from)) = 2
    /\ \E i \in 1..Len(generated) : \E dir \in {get_direction(before.whose_turn)} :
          /\ IsAdvance(before, generated[i])
          /\ Row(generated[i].from) = get_home(before.whose_turn) + dir
          /\ Row(generated[i].to) = Row(generated[i].from) + dir
          /\ at_position(before, Offset(generated[i].to, dir, 0)) # NoPiece

(* C34: sliding moves.  For a rook, bishop or queen every generated turn's *)
(* destination lies on one of the piece's rays with every square strictly  *)
(* between empty; the destination is empty (no capture) or holds an enemy  *)
(* piece (capture = destination), never a friendly piece; and the scan of  *)
(* a ray continues past a square whose move the legality filter dropped,   *)
(* so every such destination whose turn passes the filter is generated     *)
(* (whenever the generator scans at all, that is below the fifty-move      *)
(* limit).                                                                 *)
Sliders == {"Rook", "Bishop", "Queen"}

SliderReach(b, from, to) ==
    /\ OnRay(from, to)
    /\ at_position(b, from).kind = "Rook" =>
          (Row(from) = Row(to) \/ Col(from) = Col(to))
    /\ at_position(b, from).kind = "Bishop" =>
          (Row(from) # Row(to) /\ Col(from) # Col(to))
    /\ ~Blocked(b, from, to)
    /\ at_position(b, to).color # at_position(b, from).color

SliderTurn(b, from, to) ==
    IF at_position(b, to) = NoPiece
    THEN new_basic(at_position(b, from).kind, from, to)
    ELSE new_capture(at_position(b, from).kind, from, to)

C34_SlidingMoves ==
    (op = "get_moves" /\ ~before.panic /\ ~board.panic) =>
        /\ \A i \in 1..Len(generated) :
              at_position(before, generated[i].from).kind \in Sliders =>
                  /\ SliderReach(before, generated[i].from, generated[i].to)
                  /\ generated[i] =
                        SliderTurn(before, generated[i].from, generated[i].to)
        /\ ~is_50_move_rule(before) =>
              \A from \in {p \in 0..63 : /\ at_position(before, p).kind \in Sliders
                                      /\ at_position(before, p).color = before.whose_turn} :
              \A to \in {q \in 0..63 : SliderReach(before, from, q)} :
                  is_move_legal(before, SliderTurn(before, from, to)).valid =>
                      \E i \in 1..Len(generated) :
                          generated[i] = SliderTurn(before, from, to)

(* C34 witness: a generated sliding turn whose ray holds, nearer to the    *)
(* origin, an empty square the legality filter rejects.                    *)
C34_Witness ==
    /\ op = "get_moves"
    /\ ~before.panic
    /\ ~board.panic
    /\ \E i \in 1..Len(generated) :
          /\ at_position(before, generated[i].from).kind \in Sliders
          /\ \E q \in StrictlyBetween(generated[i].from, generated[i].to) :
                ~is_move_legal(before, SliderTurn(before, generated[i].from, q)).valid

(* C35: generated turns respect make_turn's preconditions.  From           *)
(* from_start(), every turn get_moves() returns moves a piece of the side  *)
(* to move from an occupied origin, its capture square (if any) holds an   *)
(* enemy piece, and its destination and additional_move destination are    *)
(* empty once the capture is removed; neither make_turn on a generated     *)
(* turn nor the probing inside get_moves hits an expect or assert failure. *)
RespectsPreconditions(b, turn) ==
    /\ at_position(b, turn.from) # NoPiece
    /\ at_position(b, turn.from).color = b.whose_turn
    /\ turn.capture # None =>
          /\ at_position(b, turn.capture) # NoPiece
          /\ at_position(b, turn.capture).color = Not(b.whose_turn)
    /\ (at_position(b, turn.to) = NoPiece \/ turn.to = turn.capture)
    /\ turn.additional_move # <<>> =>
          /\ at_position(b, turn.additional_move[1]) # NoPiece
          /\ at_position(b, turn.additional_move[2]) = NoPiece
          /\ turn.additional_move[2] # turn.to

C35_GeneratedTurnsRespectPreconditions ==
    line \in StartLines =>
        /\ ~board.panic
        /\ op = "get_moves" =>
              \A i \in 1..Len(generated) :
                  /\ RespectsPreconditions(before, generated[i])
                  /\ ~MakeTurn(before, generated[i]).panic

-----------------------------------------------------------------------------
(* A caller that plays only turns get_moves() returned, and undoes them,   *)
(* along the quiet line of ScriptFifty or the line of ScriptBlockCheck.    *)
InitFifty ==
    /\ line \in {"fifty", "block_check"}
    /\ board = from_start
    /\ generated = <<>>
    /\ op = "init"
    /\ before = from_start
    /\ returned = NoTurn
    /\ overflow_checks \in BOOLEAN
    /\ input = <<>>
    /\ output = <<>>

SpecFifty == InitFifty /\ [][Next]_vars

(* C36: as long as only turns returned by get_moves() are applied (and     *)
(* undone), the half-move clock stack is never empty and every frame of it *)
(* lies between 0 and 100 inclusive: get_moves() returns no turns once the *)
(* top frame has reached 100.                                              *)
C36_ClockFramesInRange ==
    line = "fifty" =>
        /\ ~board.panic
        /\ board.half_move_clock # <<>>
        /\ \A i \in 1..Len(board.half_move_clock) :
              board.half_move_clock[i] \in 0..100
        /\ (op = "get_moves" /\ Last(before.half_move_clock) >= 100) =>
              generated = <<>>

C36_Witness ==
    /\ line = "fifty"
    /\ op = "get_moves"
    /\ Last(before.half_move_clock) = 100
    /\ Len(before.half_move_clock) > 1
    /\ generated = <<>>

CastlingFlag(color, col) ==
    IF color = "White"
    THEN IF col = 6 THEN "K" ELSE "Q"
    ELSE IF col = 6 THEN "k" ELSE "q"

(* C38: on a board built by from_fen, a castling turn of a colour and side *)
(* is generated only if the flag of that colour and side was in the        *)
(* castling section of the input; with "-" none is generated.              *)
C38_DecodedCastlingRights ==
    (/\ line = "fen"
     /\ output = <<"Ok">>
     /\ op = "get_moves") =>
        \A i \in 1..Len(generated) :
            IsCastling(generated[i]) =>
                \E k \in 1..Len(input[1].castling) :
                    input[1].castling[k] =
                        CastlingFlag(before.whose_turn, generated[i].to % 8)

(* "rnbqkbnr/pppppppp/8/8/8/8/PPPPPPPP/RNBQKBNR w KQkq - 0 1" *)
StartFen ==
    [positions |-> StartPlacement, to_move |-> <<"w">>,
     castling |-> <<"K", "Q", "k", "q">>, en_passant_target |-> <<"-">>,
     half_move_clock |-> <<TRUE, 0>>, num_moves |-> <<TRUE, 1>>]

(* C39: from_fen applied to the description of the standard opening        *)
(* position returns Ok with a board equal to from_start(): the same piece  *)
(* on every square, White to move, no en passant target, half-move clock   *)
(* 0 and full-move number 1.                                               *)
C39_StandardStartDecodes ==
    (/\ line = "fen"
     /\ op = "init"
     /\ input = <<StartFen>>) =>
        /\ output = <<"Ok">>
        /\ board = from_start

====
